---- MODULE Spec2Model ----
(***************************************************************************)
(* The ETL pipeline of the micro-lending repository: the Extractor with    *)
(* its watermarks (reporting/etl/extract.py), the Loader                   *)
(* (reporting/etl/load.py), the ETLOrchestrator (reporting/etl/run_etl.py) *)
(* and the timed_step helper (reporting/etl/logging_config.py).            *)
(*                                                                         *)
(* Timestamps are the integers 1..MaxTs.  A source table is the set of the *)
(* timestamps of its rows (the column the extract compares with the        *)
(* watermark); a row is identified by that timestamp.  Two of the five     *)
(* operational tables are carried, user and loan; the other three take the *)
(* same path through extract_incremental / extract_full.                   *)
(*                                                                         *)
(* Every call that opens a connection or executes a statement may raise;   *)
(* rollback() and close() do not raise.                                    *)
(***************************************************************************)
EXTENDS Integers, Sequences, FiniteSets, TLC

\* Bounds of the model: timestamps, orchestrator runs, direct run_extract calls,
\* timed_step uses, rows in the input list of a transform call, rows of the table
\* that concurrent runs read.
MaxTs == 2
MaxRuns == 1
MaxCalls == 3
MaxSteps == 3
MaxBatch == 2
MaxRows == 2
MaxLoadBatches == 3

\* Python's None, for a string or an exception.
None == "None"

\* Python's None, for an Optional[datetime].
NoneTs == -1

\* run_extract extracts the operational tables in this order.
TableOrder == <<"user", "loan">>

Tables == {TableOrder[i] : i \in 1..Len(TableOrder)}

\* A load order that calls the fact procedure before the dimensions.
LoadOrderFactFirst ==
    <<"fact_loan_transactions", "dim_user", "dim_loan_product", "fact_daily_portfolio">>

\* Loader.run_load loads the target tables in this order.
LoadOrder == <<"dim_user", "dim_loan_product", "fact_loan_transactions", "fact_daily_portfolio">>

Targets == {LoadOrder[i] : i \in 1..Len(LoadOrder)}

Dimensions == {"dim_user", "dim_loan_product"}

Max(S) == CHOOSE x \in S : \A y \in S : y <= x

Last(s) == s[Len(s)]

VARIABLES
    src,            \* source tables: table -> set of row timestamps
    now,            \* the source database's clock (NOW())
    wm,             \* etl_watermarks: table -> [value, last_run_id]
    runLog,         \* etl_run_log: sequence of [status, error], index = run_id
    loaded,         \* the star-schema tables that hold committed work of this run
    orchs,          \* number of ETLOrchestrator objects constructed so far
    calls,          \* number of direct Extractor.run_extract calls so far
    mode,           \* ETLOrchestrator.mode
    dryRun,         \* ETLOrchestrator.dry_run
    status,         \* ETLOrchestrator.metrics['status']
    errorMsg,       \* ETLOrchestrator.metrics['error']
    runId,          \* ETLOrchestrator.run_id (0 is None)
    metrics,        \* ETLOrchestrator.metrics['extract' | 'transform' | 'load'] key sets
    pc,             \* position of ETLOrchestrator.run
    ti,             \* loop index of the table / list entry in work
    exc,            \* the exception in flight inside run()
    raised,         \* what run() raised to its caller
    exWm,           \* Extractor.run_extract locals user_wm, loan_wm, ...
    results,        \* Extractor.run_extract local results: table -> ExtractResult
    toUpdate,       \* Extractor.run_extract local watermarks_to_update
    tOut,           \* Transformer.run_transform result (number of dim_user rows, rejected flag)
    loaderConnected,\* whether a Loader connected during this run
    loadResults,    \* Loader.run_load local results: table -> LoadResult
    tx,             \* uncommitted work of the Loader's connection (set of target tables)
    stmtFailed,     \* whether the executemany of the dimension in work raised
    wmAtStart,      \* history: wm when the run started
    trace,          \* history: the operations this run has completed, in order
    lg,             \* ETLLogger: [db_config, run_id] (FALSE / 0 is unset)
    tsPc,           \* position of the current timed_step use
    tsRowsFailed,   \* ETLMetrics.rows_failed of the current timed_step use
    tsStatus,       \* timed_step local status
    tsErr,          \* the exception the current timed_step body raised
    tsRaised,       \* what the last timed_step use raised to its caller
    tsUses,         \* number of timed_step uses entered so far
    stepLog,        \* etl_step_log rows written by log_step_to_db
    tfFn,           \* the Transformer method last called ("none" before any call)
    tfIn,           \* its arguments: [users, loans, user_ids, fx_rates]
    tfResult,       \* what it returned: [dim_user, fact_loan_transactions], or raised
    ccSrc,          \* the user table read by concurrent runs: set of rows [id, ts]
    cc,             \* the concurrent run_extract calls: run id -> position and locals
    ccStart,        \* history: isolation level, watermark and rows when the first began
    cfEnv,          \* the process environment: the MYSQL_* variables that are set
    cfConfig,       \* the connection config dict in use
    cfPipeline,     \* whether the config is the orchestrator's (else a caller's)
    cfPc,           \* which component connects next
    cfConns,        \* the pymysql.connect calls made: [by, host, user, password]
    cfError,        \* the exception a connect step raised
    chStore,        \* the Redis keyspace: key -> the JSON value stored, or Absent
    chOrigin,       \* history: key -> the arguments of the call that cached the entry
    chLast,         \* history: the last cache operation and what it did
    ldPc,           \* where the load_dim_user call is
    ldCall,         \* its arguments and loop variable: [rows, batch_size, batch]
    ldTx,           \* the batches executed on the connection and not committed
    ldTable,        \* the batches of this load that dim_user holds committed
    ldIndexes,      \* the state of the dim_user indexes
    ldResult,       \* the LoadResult returned
    ldFailedAt      \* history: the batch whose statement raised (0: none)

etlVars == <<src, now, wm, runLog, orchs, calls, mode, dryRun, status, errorMsg, runId,
             metrics, pc, ti, exc, raised, exWm, results, toUpdate, tOut, loaderConnected,
             loadResults, tx, stmtFailed, loaded, wmAtStart, trace>>

stepVars == <<lg, tsPc, tsRowsFailed, tsStatus, tsErr, tsRaised, tsUses, stepLog>>

tfVars == <<tfFn, tfIn, tfResult>>

ccVars == <<ccSrc, cc, ccStart>>

cfVars == <<cfEnv, cfConfig, cfPipeline, cfPc, cfConns, cfError>>

chVars == <<chStore, chOrigin, chLast>>

ldVars == <<ldPc, ldCall, ldTx, ldTable, ldIndexes, ldResult, ldFailedAt>>

vars == <<etlVars, stepVars, tfVars, ccVars, cfVars, chVars, ldVars>>

runVars == <<exWm, results, toUpdate, tOut, loaderConnected, loadResults, tx, stmtFailed, loaded>>

----------------------------------------------------------------------------
\* Python truthiness of an Optional[datetime]: every datetime is truthy.
TruthyTs(x) == x # NoneTs

\* Python truthiness of a run id (None and 0 are falsy).
TruthyId(x) == x # 0

\* An ExtractResult not produced yet.
NoResult == [rows |-> {}, watermark |-> NoneTs, done |-> FALSE]

EmptyMetrics == [extract |-> {}, transform |-> {}, load |-> {}]

\* A TransformResult of nothing: no rows, nothing rejected, no errors.
NoTransform == [rows |-> <<>>, rejected_count |-> 0, errors |-> <<>>]

\* BATCH_SIZE, the default of Loader.batch_size, and the row count above which
\* load_dim_user disables the indexes.
BATCH_SIZE == 1000
BulkThreshold == 100
DISABLE_INDEXES_ON_BULK == TRUE

\* No load_dim_user call is in progress, and none has returned.
NoLoad == [rows |-> 0, batch_size |-> BATCH_SIZE, batch |-> 0]
NoLoadResult == [success |-> FALSE, rows_staged |-> -1, rows_inserted |-> -1]

\* No arguments: no call of the Transformer is in progress.
NoInput == [users |-> <<>>, loans |-> <<>>, user_ids |-> {}, fx_rates |-> <<>>,
            source_user_ids |-> {}]

\* The run ids of two run_extract calls made by two processes.
Runs == {1, 2}

\* A run_extract call that has not read anything yet.
NotStarted == [pc |-> "new", snapshot |-> {}, wm |-> NoneTs, rows |-> {}, watermark |-> NoneTs]

\* A Python value as the cache sees it: its type and its text.
PyNone == [type |-> "NoneType", v |-> "None"]

\* No value under a Redis key.
Absent == [type |-> "absent", v |-> ""]

\* ':'.join(parts).
RECURSIVE Join(_)
Join(parts) ==
    IF Len(parts) = 1 THEN parts[1] ELSE parts[1] \o ":" \o Join(Tail(parts))

\* CacheKeyBuilder.build(namespace, *args), without keyword arguments.
build(namespace, args) ==
    Join(<<"ml", namespace>> \o [i \in 1..Len(args) |-> ToString(args[i])])

\* The keys given to CacheAside, and the argument tuples given to the function
\* that test_decorator wraps with @cached(key_prefix='test_func').
CacheKeys == {"test:cache:aside", build("loan", <<101>>)}
ArgTuples == {<<5, 3>>, <<10, 20>>, <<10, 3>>}

\* The cache key a @cached wrapper computes from the positional arguments.
cache_key(prefix, args) == build(prefix, IF args # <<>> THEN Tail(args) ELSE args)

AllKeys == CacheKeys \cup {cache_key("test_func", a) : a \in ArgTuples}

\* No cache operation has run yet.
NoOperation == [op |-> "none", key |-> "", args |-> <<>>, origin |-> <<>>, held |-> FALSE,
                get_failed |-> FALSE, fetched |-> FALSE, set_failed |-> FALSE,
                result |-> PyNone]

EmptyMap == [x \in {} |-> None]

Init ==
    /\ src = [t \in Tables |-> {}]
    /\ now = 0
    /\ wm = [t \in Tables |-> [value |-> 0, last_run_id |-> 0]]
    /\ runLog = <<>>
    /\ loaded = {}
    /\ orchs = 0
    /\ calls = 0
    /\ mode = "full"
    /\ dryRun = FALSE
    /\ status = "pending"
    /\ errorMsg = None
    /\ runId = 0
    /\ metrics = EmptyMetrics
    /\ pc = "idle"
    /\ ti = 1
    /\ exc = None
    /\ raised = None
    /\ exWm = [t \in Tables |-> NoneTs]
    /\ results = [t \in Tables |-> NoResult]
    /\ toUpdate = <<>>
    /\ tOut = [rows |-> 0, rejected |-> FALSE]
    /\ loaderConnected = FALSE
    /\ loadResults = EmptyMap
    /\ tx = {}
    /\ stmtFailed = FALSE
    /\ wmAtStart = [t \in Tables |-> [value |-> 0, last_run_id |-> 0]]
    /\ trace = <<>>
    /\ lg = [db_config |-> FALSE, run_id |-> 0]
    /\ tsPc = "out"
    /\ tsRowsFailed = 0
    /\ tsStatus = "running"
    /\ tsErr = None
    /\ tsRaised = None
    /\ tsUses = 0
    /\ stepLog = <<>>
    /\ tfFn = "none"
    /\ tfIn = NoInput
    /\ tfResult = [raised |-> FALSE, dim_user |-> NoTransform,
                   fact_loan_transactions |-> NoTransform]
    /\ ccSrc = {}
    /\ cc = [r \in Runs |-> NotStarted]
    /\ ccStart = [begun |-> FALSE, isolation |-> "REPEATABLE READ", wm |-> 0, rows |-> {}]
    /\ cfEnv = {}
    /\ cfConfig = EmptyMap
    /\ cfPipeline = FALSE
    /\ cfPc = "start"
    /\ cfConns = <<>>
    /\ cfError = None
    /\ chStore = [k \in AllKeys |-> Absent]
    /\ chOrigin = [k \in AllKeys |-> <<>>]
    /\ chLast = NoOperation
    /\ ldPc = "idle"
    /\ ldCall = NoLoad
    /\ ldTx = {}
    /\ ldTable = {}
    /\ ldIndexes = "enabled"
    /\ ldResult = NoLoadResult
    /\ ldFailedAt = 0

----------------------------------------------------------------------------
\* The source database (the OLTP tables the API server writes).

\* No run is in progress.
Quiescent == pc = "idle"

\* INSERT or UPDATE of a row: its timestamp column becomes NOW().
SourceWrite(t) ==
    /\ Quiescent
    /\ now < MaxTs
    /\ now' = now + 1
    /\ src' = [src EXCEPT ![t] = @ \cup {now + 1}]
    /\ UNCHANGED <<wm, runLog, orchs, calls, mode, dryRun, status, errorMsg, runId,
                   metrics, pc, ti, exc, raised, runVars, wmAtStart, trace>>
    /\ UNCHANGED <<stepVars, tfVars, ccVars, cfVars, chVars, ldVars>>

\* A row committed within the clock tick of the latest row: same timestamp.
SourceWriteSameTick(t) ==
    /\ Quiescent
    /\ now >= 1
    /\ src' = [src EXCEPT ![t] = @ \cup {now}]
    /\ UNCHANGED <<now, wm, runLog, orchs, calls, mode, dryRun, status, errorMsg, runId,
                   metrics, pc, ti, exc, raised, runVars, wmAtStart, trace>>
    /\ UNCHANGED <<stepVars, tfVars, ccVars, cfVars, chVars, ldVars>>

\* DELETE /users/{user_id}: the row is removed from the user table.
DeleteUser ==
    /\ Quiescent
    /\ \E r \in src["user"] : src' = [src EXCEPT !["user"] = @ \ {r}]
    /\ UNCHANGED <<now, wm, runLog, orchs, calls, mode, dryRun, status, errorMsg, runId,
                   metrics, pc, ti, exc, raised, runVars, wmAtStart, trace>>
    /\ UNCHANGED <<stepVars, tfVars, ccVars, cfVars, chVars, ldVars>>

----------------------------------------------------------------------------
\* ETLOrchestrator and Extractor.

srcVars == <<src, now>>

confVars == <<orchs, calls, mode, dryRun>>

histVars == <<wmAtStart>>

loadVars == <<loaderConnected, loadResults, tx, stmtFailed, loaded>>

\* An exception leaves the try block of ETLOrchestrator.run; e names the call of
\* run() it comes out of (start_run, extract, transform, load, complete_run).
Raise(e) == pc' = "handler" /\ exc' = e

\* ETLOrchestrator.__init__: a new orchestrator, status 'pending'.
NewRun ==
    /\ Quiescent
    /\ orchs < MaxRuns
    /\ orchs' = orchs + 1
    /\ UNCHANGED calls
    /\ mode' \in {"full", "incremental"}
    /\ dryRun' \in BOOLEAN
    /\ status' = "pending"
    /\ errorMsg' = None
    /\ runId' = 0
    /\ metrics' = EmptyMetrics
    /\ pc' = "start_run"
    /\ ti' = 1
    /\ exc' = None
    /\ raised' = None
    /\ exWm' = [t \in Tables |-> NoneTs]
    /\ results' = [t \in Tables |-> NoResult]
    /\ toUpdate' = <<>>
    /\ tOut' = [rows |-> 0, rejected |-> FALSE]
    /\ loaderConnected' = FALSE
    /\ loadResults' = EmptyMap
    /\ tx' = {}
    /\ stmtFailed' = FALSE
    /\ loaded' = {}
    /\ wmAtStart' = wm
    /\ trace' = <<>>
    /\ UNCHANGED <<srcVars, wm, runLog>>
    /\ UNCHANGED <<stepVars, tfVars, ccVars, cfVars, chVars, ldVars>>

\* ETLOrchestrator.start_run: INSERT the run-log row with status 'running';
\* run_id is its lastrowid.
StartRun ==
    /\ pc = "start_run"
    /\ \/ /\ runLog' = Append(runLog, [status |-> "running", error |-> None])
          /\ runId' = Len(runLog) + 1
          /\ pc' = "extract_connect"
          /\ UNCHANGED exc
       \/ /\ Raise("start_run")
          /\ UNCHANGED <<runLog, runId>>
    /\ UNCHANGED <<srcVars, wm, confVars, status, errorMsg, metrics, ti, raised,
                   runVars, histVars, trace>>
    /\ UNCHANGED <<stepVars, tfVars, ccVars, cfVars, chVars, ldVars>>

\* Extractor.get_watermark.
GetWatermark(t) == wm[t].value

\* ETLOrchestrator.run_extract: Extractor.connect, then the get_watermark calls
\* that open Extractor.run_extract in incremental mode.
ExtractConnect ==
    /\ pc = "extract_connect"
    /\ \/ /\ pc' = "extract_rows"
          /\ ti' = 1
          /\ exWm' = IF mode = "incremental" THEN [t \in Tables |-> GetWatermark(t)] ELSE exWm
          /\ UNCHANGED exc
       \/ /\ Raise("extract")
          /\ UNCHANGED <<ti, exWm>>
    /\ UNCHANGED <<srcVars, wm, runLog, confVars, status, errorMsg, runId, metrics,
                   raised, results, toUpdate, tOut, loadVars, histVars, trace>>
    /\ UNCHANGED <<stepVars, tfVars, ccVars, cfVars, chVars, ldVars>>

\* The row query of extract_incremental: WHERE timestamp_col > watermark.
IncrementalRows(t, w) == {r \in src[t] : r > w}

\* SELECT MAX(timestamp_col) FROM table.
MaxTimestamp(t) == IF src[t] = {} THEN NoneTs ELSE Max(src[t])

\* extract_incremental's max_timestamp when the row query returned nothing:
\* it keeps its initial value, the watermark passed in.
EmptyExtractWatermark(w) == w

\* run_extract, incremental mode: the watermarks that need updating.
TrackWatermarks(res) ==
    LET keep == SelectSeq(TableOrder, LAMBDA t : TruthyTs(res[t].watermark))
    IN  [i \in 1..Len(keep) |-> [table |-> keep[i], value |-> res[keep[i]].watermark]]

\* Where run_extract goes once table i has its ExtractResult res[TableOrder[i]].
AfterTable(i, res) ==
    IF i < Len(TableOrder)
    THEN /\ pc' = "extract_rows"
         /\ ti' = i + 1
         /\ UNCHANGED toUpdate
    ELSE IF mode = "incremental"
    THEN /\ pc' = "extract_ref"
         /\ ti' = 1
         /\ toUpdate' = TrackWatermarks(res)
    ELSE /\ pc' = IF TruthyId(runId) THEN "full_wm" ELSE "extract_ref"
         /\ ti' = 1
         /\ UNCHANGED toUpdate

\* extract_users / extract_loans: extract_incremental's row query when the mode is
\* incremental and the watermark is set, else extract_full.
ExtractRows ==
    /\ pc = "extract_rows"
    /\ LET t == TableOrder[ti]
           w == exWm[t]
       IN  \/ /\ mode = "incremental" /\ TruthyTs(w)
              /\ IncrementalRows(t, w) # {}
              /\ results' = [results EXCEPT ![t] = [rows |-> IncrementalRows(t, w),
                                                     watermark |-> w, done |-> FALSE]]
              /\ pc' = "extract_max"
              /\ UNCHANGED <<ti, toUpdate, trace, exc>>
           \/ /\ mode = "incremental" /\ TruthyTs(w)
              /\ IncrementalRows(t, w) = {}
              /\ results' = [results EXCEPT ![t] = [rows |-> {},
                                                     watermark |-> EmptyExtractWatermark(w),
                                                     done |-> TRUE]]
              /\ AfterTable(ti, results')
              /\ trace' = Append(trace, <<"extract", t>>)
              /\ UNCHANGED exc
           \/ /\ ~(mode = "incremental" /\ TruthyTs(w))
              /\ results' = [results EXCEPT ![t] = [rows |-> src[t], watermark |-> NoneTs,
                                                     done |-> TRUE]]
              /\ AfterTable(ti, results')
              /\ trace' = Append(trace, <<"extract", t>>)
              /\ UNCHANGED exc
           \/ /\ Raise("extract")
              /\ UNCHANGED <<results, ti, toUpdate, trace>>
    /\ UNCHANGED <<srcVars, wm, runLog, confVars, status, errorMsg, runId, metrics,
                   raised, exWm, tOut, loadVars, histVars>>
    /\ UNCHANGED <<stepVars, tfVars, ccVars, cfVars, chVars, ldVars>>

\* extract_incremental, rows found: the separate MAX query gives the new watermark.
ExtractMax ==
    /\ pc = "extract_max"
    /\ LET t == TableOrder[ti]
       IN  \/ /\ results' = [results EXCEPT ![t].watermark = MaxTimestamp(t),
                                            ![t].done = TRUE]
              /\ AfterTable(ti, results')
              /\ trace' = Append(trace, <<"extract", t>>)
              /\ UNCHANGED exc
           \/ /\ Raise("extract")
              /\ UNCHANGED <<results, ti, toUpdate, trace>>
    /\ UNCHANGED <<srcVars, wm, runLog, confVars, status, errorMsg, runId, metrics,
                   raised, exWm, tOut, loadVars, histVars>>
    /\ UNCHANGED <<stepVars, tfVars, ccVars, cfVars, chVars, ldVars>>

\* An update_watermark that records the run but not the new value.
UpdateWatermarkKeepsValue(w, t, value, run) ==
    [w EXCEPT ![t] = [value |-> w[t].value, last_run_id |-> run]]

\* Extractor.update_watermark: an unconditional UPDATE of the record.
UpdateWatermark(w, t, value, run) ==
    [w EXCEPT ![t] = [value |-> value, last_run_id |-> run]]

\* _update_full_load_watermarks, one table: MAX query, then update_watermark when a
\* maximum exists; an exception is logged as a warning and the loop goes on.
FullLoadWatermark ==
    /\ pc = "full_wm"
    /\ LET t == TableOrder[ti]
           max_ts == MaxTimestamp(t)
       IN  \/ /\ TruthyTs(max_ts)
              /\ wm' = UpdateWatermark(wm, t, max_ts, runId)
           \/ /\ ~TruthyTs(max_ts)
              /\ UNCHANGED wm
           \/ /\ TruthyTs(max_ts)       \* update_watermark raised: warning only
              /\ UNCHANGED wm
    /\ IF ti < Len(TableOrder)
       THEN ti' = ti + 1 /\ UNCHANGED pc
       ELSE ti' = 1 /\ pc' = "extract_ref"
    /\ UNCHANGED <<srcVars, runLog, confVars, status, errorMsg, runId, metrics,
                   exc, raised, runVars, histVars, trace>>
    /\ UNCHANGED <<stepVars, tfVars, ccVars, cfVars, chVars, ldVars>>

\* run_extract: the reference and market extracts (always full / latest).
ExtractReference ==
    /\ pc = "extract_ref"
    /\ \/ /\ pc' = IF TruthyId(runId) /\ toUpdate # <<>> THEN "update_wm" ELSE "extract_log"
          /\ ti' = 1
          /\ UNCHANGED exc
       \/ /\ Raise("extract")
          /\ UNCHANGED ti
    /\ UNCHANGED <<srcVars, wm, runLog, confVars, status, errorMsg, runId, metrics,
                   raised, runVars, histVars, trace>>
    /\ UNCHANGED <<stepVars, tfVars, ccVars, cfVars, chVars, ldVars>>

\* run_extract: the loop over watermarks_to_update, one update_watermark per entry.
UpdateWatermarks ==
    /\ pc = "update_wm"
    /\ \/ /\ wm' = UpdateWatermark(wm, toUpdate[ti].table, toUpdate[ti].value, runId)
          /\ IF ti < Len(toUpdate)
             THEN ti' = ti + 1 /\ UNCHANGED pc
             ELSE ti' = 1 /\ pc' = "extract_log"
          /\ UNCHANGED exc
       \/ /\ Raise("extract")
          /\ UNCHANGED <<wm, ti>>
    /\ UNCHANGED <<srcVars, runLog, confVars, status, errorMsg, runId, metrics,
                   raised, runVars, histVars, trace>>
    /\ UNCHANGED <<stepVars, tfVars, ccVars, cfVars, chVars, ldVars>>

\* ETLOrchestrator.run_extract after Extractor.run_extract returned: metrics and one
\* log_step (a new connection) per result; extractor.close() in the finally.
ExtractLog ==
    /\ pc = "extract_log"
    /\ \/ /\ metrics' = [metrics EXCEPT !.extract = Tables]
          /\ pc' = "transform"
          /\ trace' = Append(trace, <<"extract_done", "all">>)
          /\ exWm' = [t \in Tables |-> NoneTs]     \* run_extract's locals end here
          /\ toUpdate' = <<>>
          /\ UNCHANGED exc
       \/ /\ Raise("extract")
          /\ UNCHANGED <<metrics, trace, exWm, toUpdate>>
    /\ UNCHANGED <<srcVars, wm, runLog, confVars, status, errorMsg, runId, ti,
                   raised, results, tOut, loadVars, histVars>>
    /\ UNCHANGED <<stepVars, tfVars, ccVars, cfVars, chVars, ldVars>>

----------------------------------------------------------------------------
\* Transformer, Loader and the end of ETLOrchestrator.run.

\* ETLOrchestrator.run_transform: Transformer.run_transform, then metrics, log_step
\* and log_error per result.  Of the extracted users, tOut.rows passed
\* validation and become dim_user rows; the others were rejected.
Transform ==
    /\ pc = "transform"
    /\ \/ /\ \E kept \in 0..Cardinality(results["user"].rows) :
                tOut' = [rows |-> kept, rejected |-> kept # Cardinality(results["user"].rows)]
          /\ metrics' = [metrics EXCEPT !.transform = Targets]
          /\ pc' = "load"
          /\ trace' = Append(trace, <<"transform_done", "all">>)
          /\ UNCHANGED exc
       \/ /\ Raise("transform")
          /\ UNCHANGED <<tOut, metrics, trace>>
    /\ UNCHANGED <<srcVars, wm, runLog, confVars, status, errorMsg, runId, ti,
                   raised, exWm, results, toUpdate, loadVars, histVars>>
    /\ UNCHANGED <<stepVars, tfVars, ccVars, cfVars, chVars, ldVars>>

\* A run_load that ignores the dry-run flag.
SkipLoadNever == FALSE

\* ETLOrchestrator.run_load: the dry-run test that precedes the Loader.
SkipLoad == dryRun

\* ETLOrchestrator.run_load up to loader.connect(): a dry run returns {} at once.
LoadConnect ==
    /\ pc = "load"
    /\ \/ /\ SkipLoad
          /\ pc' = "finish"
          /\ trace' = Append(trace, <<"load_done", "all">>)
          /\ UNCHANGED <<loaderConnected, ti, exc>>
       \/ /\ ~SkipLoad
          /\ loaderConnected' = TRUE
          /\ pc' = "load_dim"
          /\ ti' = 1
          /\ UNCHANGED <<trace, exc>>
       \/ /\ ~SkipLoad
          /\ Raise("load")
          /\ UNCHANGED <<loaderConnected, ti, trace>>
    /\ UNCHANGED <<srcVars, wm, runLog, confVars, status, errorMsg, runId, metrics,
                   raised, exWm, results, toUpdate, tOut, loadResults, tx, stmtFailed,
                   loaded, histVars>>
    /\ UNCHANGED <<stepVars, tfVars, ccVars, cfVars, chVars, ldVars>>

\* A LoadResult.
LoadResult(ok, err) == [success |-> ok, error |-> err]

\* Loader.run_load records the LoadResult of table t.
Record(lr, t, r) == [x \in DOMAIN lr \cup {t} |-> IF x = t THEN r ELSE lr[x]]

\* Where Loader.run_load goes after the table at position i.
AfterLoad(i) ==
    /\ ti' = i + 1
    /\ pc' = IF i + 1 > Len(LoadOrder) THEN "load_log"
             ELSE IF LoadOrder[i + 1] \in Dimensions THEN "load_dim" ELSE "load_sp"

\* The rows handed to the load of a dimension: the dim_user transform output; the
\* products come from a reference table, any number of them.
DimRowsEmpty(t, e) == IF t = "dim_user" THEN tOut.rows = 0 ELSE e

\* load_dim_user / load_dim_loan_product, the executemany loop: with no rows the
\* LoadResult is success at once; else the batches are executed, uncommitted.
LoadDimExecute ==
    /\ pc = "load_dim"
    /\ LET t == LoadOrder[ti]
       IN  \E e \in BOOLEAN :
             \/ /\ DimRowsEmpty(t, e)
                /\ loadResults' = Record(loadResults, t, LoadResult(TRUE, None))
                /\ trace' = Append(trace, <<"load", t>>)
                /\ AfterLoad(ti)
                /\ UNCHANGED <<tx, stmtFailed>>
             \/ /\ ~DimRowsEmpty(t, e)
                /\ tx' = tx \cup {t}
                /\ stmtFailed' \in BOOLEAN
                /\ pc' = "load_dim_end"
                /\ UNCHANGED <<loadResults, trace, ti>>
    /\ UNCHANGED <<srcVars, wm, runLog, confVars, status, errorMsg, runId, metrics,
                   exc, raised, exWm, results, toUpdate, tOut, loaderConnected, loaded,
                   histVars>>
    /\ UNCHANGED <<stepVars, tfVars, ccVars, cfVars, chVars, ldVars>>

\* connection.commit(): the uncommitted work of the connection reaches the tables.
Commit(done, work) == done \cup work

\* An except clause without the rollback: the failed work stays pending.
RollbackKeepsWork(work) == work

\* connection.rollback() in the except clause of a dimension load.
Rollback(work) == {}

\* load_dim_user / load_dim_loan_product after the executemany loop: commit and a
\* success LoadResult; on pymysql.Error rollback and a failed LoadResult.
LoadDimEnd ==
    /\ pc = "load_dim_end"
    /\ LET t == LoadOrder[ti]
       IN  \/ /\ ~stmtFailed
              /\ loaded' = Commit(loaded, tx)
              /\ tx' = {}
              /\ loadResults' = Record(loadResults, t, LoadResult(TRUE, None))
           \/ /\ tx' = Rollback(tx)      \* the executemany or the commit raised
              /\ loadResults' = Record(loadResults, t, LoadResult(FALSE, "error"))
              /\ UNCHANGED loaded
    /\ trace' = Append(trace, <<"load", LoadOrder[ti]>>)
    /\ stmtFailed' = FALSE
    /\ AfterLoad(ti)
    /\ UNCHANGED <<srcVars, wm, runLog, confVars, status, errorMsg, runId, metrics,
                   exc, raised, exWm, results, toUpdate, tOut, loaderConnected, histVars>>
    /\ UNCHANGED <<stepVars, tfVars, ccVars, cfVars, chVars, ldVars>>

\* The stored procedures sp_etl_load_fact_transactions and
\* sp_etl_refresh_portfolio_snapshot: atomic; on success the target table holds
\* this run's data.
ProcedureEffect(done, t) == done \cup {t}

\* load_fact_transactions_via_sp / refresh_portfolio_snapshot_via_sp: CALL the
\* procedure and read its status; a status other than 'success' or a pymysql.Error
\* gives a failed LoadResult.
LoadProcedure ==
    /\ pc = "load_sp"
    /\ LET t == LoadOrder[ti]
       IN  \/ /\ loaded' = ProcedureEffect(loaded, t)
              /\ loadResults' = Record(loadResults, t, LoadResult(TRUE, None))
           \/ /\ loadResults' = Record(loadResults, t, LoadResult(FALSE, "error"))
              /\ UNCHANGED loaded     \* the procedure reported another status
           \/ /\ loadResults' = Record(loadResults, t, LoadResult(FALSE, "error"))
              /\ UNCHANGED loaded     \* pymysql.Error
    /\ trace' = Append(trace, <<"load", LoadOrder[ti]>>)
    /\ AfterLoad(ti)
    /\ UNCHANGED <<srcVars, wm, runLog, confVars, status, errorMsg, runId, metrics,
                   exc, raised, exWm, results, toUpdate, tOut, loaderConnected, tx,
                   stmtFailed, histVars>>
    /\ UNCHANGED <<stepVars, tfVars, ccVars, cfVars, chVars, ldVars>>

\* ETLOrchestrator.run_load after Loader.run_load returned: metrics and one log_step
\* per result; loader.close() in the finally drops what is uncommitted.
LoadLog ==
    /\ pc = "load_log"
    /\ \/ /\ metrics' = [metrics EXCEPT !.load = DOMAIN loadResults]
          /\ pc' = "finish"
          /\ trace' = Append(trace, <<"load_done", "all">>)
          /\ UNCHANGED exc
       \/ /\ Raise("load")
          /\ UNCHANGED <<metrics, trace>>
    /\ tx' = {}
    /\ UNCHANGED <<srcVars, wm, runLog, confVars, status, errorMsg, runId, ti,
                   raised, exWm, results, toUpdate, tOut, loaderConnected, loadResults,
                   stmtFailed, loaded, histVars>>
    /\ UNCHANGED <<stepVars, tfVars, ccVars, cfVars, chVars, ldVars>>

\* ETLOrchestrator.run: the three phases returned; metrics['status'] = 'success'.
Finish ==
    /\ pc = "finish"
    /\ status' = "success"
    /\ pc' = "complete"
    /\ UNCHANGED <<srcVars, wm, runLog, confVars, errorMsg, runId, metrics, ti,
                   exc, raised, runVars, histVars, trace>>
    /\ UNCHANGED <<stepVars, tfVars, ccVars, cfVars, chVars, ldVars>>

\* ETLOrchestrator.complete_run: UPDATE the run-log row of run_id.
CompleteRun(log, run, st, err) == [log EXCEPT ![run] = [status |-> st, error |-> err]]

\* ETLOrchestrator.run: complete_run('success'), still inside the try block.
CompleteSuccess ==
    /\ pc = "complete"
    /\ \/ /\ runLog' = CompleteRun(runLog, runId, "success", None)
          /\ pc' = "done"
          /\ UNCHANGED exc
       \/ /\ Raise("complete_run")
          /\ UNCHANGED runLog
    /\ UNCHANGED <<srcVars, wm, confVars, status, errorMsg, runId, metrics, ti,
                   raised, runVars, histVars, trace>>
    /\ UNCHANGED <<stepVars, tfVars, ccVars, cfVars, chVars, ldVars>>

\* ETLOrchestrator.run, the except clause: metrics['status'] = 'failed',
\* complete_run('failed', str(e)) when a run id exists, then raise.  An exception
\* of complete_run replaces e.
Handler ==
    /\ pc = "handler"
    /\ status' = "failed"
    /\ errorMsg' = exc
    /\ \/ /\ TruthyId(runId)
          /\ runLog' = CompleteRun(runLog, runId, "failed", exc)
          /\ raised' = exc
       \/ /\ TruthyId(runId)
          /\ raised' = "complete_run in handler"
          /\ UNCHANGED runLog
       \/ /\ ~TruthyId(runId)
          /\ raised' = exc
          /\ UNCHANGED runLog
    /\ pc' = "done"
    /\ tx' = {}
    /\ UNCHANGED <<srcVars, wm, confVars, runId, metrics, ti, exc, exWm, results,
                   toUpdate, tOut, loaderConnected, loadResults, stmtFailed, loaded, histVars,
                   trace>>
    /\ UNCHANGED <<stepVars, tfVars, ccVars, cfVars, chVars, ldVars>>

\* The locals of a finished call are dropped.
ResetLocals ==
    /\ mode' = "full"
    /\ dryRun' = FALSE
    /\ status' = "pending"
    /\ errorMsg' = None
    /\ runId' = 0
    /\ metrics' = EmptyMetrics
    /\ ti' = 1
    /\ exc' = None
    /\ raised' = None
    /\ exWm' = [t \in Tables |-> NoneTs]
    /\ results' = [t \in Tables |-> NoResult]
    /\ toUpdate' = <<>>
    /\ tOut' = [rows |-> 0, rejected |-> FALSE]
    /\ loaderConnected' = FALSE
    /\ loadResults' = EmptyMap
    /\ tx' = {}
    /\ stmtFailed' = FALSE
    /\ loaded' = {}
    /\ wmAtStart' = wm
    /\ trace' = <<>>

\* The run-log rows once their runs are over: complete_run updates the row
\* WHERE run_id = self.run_id only, so no later run reads or writes them, and the
\* model keeps of them no more than their ids.
Archived(log) == [i \in DOMAIN log |-> [status |-> "archived", error |-> None]]

\* ETLOrchestrator.run returned its metrics or raised: main() is over.
Return ==
    /\ pc = "done"
    /\ pc' = "idle"
    /\ ResetLocals
    /\ runLog' = Archived(runLog)
    /\ UNCHANGED <<srcVars, wm, orchs, calls>>
    /\ UNCHANGED <<stepVars, tfVars, ccVars, cfVars, chVars, ldVars>>

\* A direct call Extractor.run_extract(mode, run_id) on a connected Extractor;
\* run_id defaults to None.
BeginExtract ==
    /\ pc = "idle"
    /\ calls < MaxCalls
    /\ calls' = calls + 1
    /\ mode' \in {"full", "incremental"}
    /\ runId' \in {0, calls + 1}
    /\ exWm' = IF mode' = "incremental" THEN [t \in Tables |-> GetWatermark(t)] ELSE exWm
    /\ pc' = "extract_rows"
    /\ ti' = 1
    /\ wmAtStart' = wm
    /\ UNCHANGED <<srcVars, wm, runLog, orchs, dryRun, status, errorMsg, metrics,
                   exc, raised, results, toUpdate, tOut, loadVars, trace>>
    /\ UNCHANGED <<stepVars, tfVars, ccVars, cfVars, chVars, ldVars>>

\* Extractor.run_extract returns its results to the direct caller.
ExtractReturn ==
    /\ pc = "extract_log"
    /\ pc' = "idle"
    /\ ResetLocals
    /\ UNCHANGED <<srcVars, wm, runLog, orchs, calls>>
    /\ UNCHANGED <<stepVars, tfVars, ccVars, cfVars, chVars, ldVars>>

\* Extractor.run_extract raises to the direct caller.
ExtractAbort ==
    /\ pc = "handler"
    /\ pc' = "idle"
    /\ ResetLocals
    /\ UNCHANGED <<srcVars, wm, runLog, orchs, calls>>
    /\ UNCHANGED <<stepVars, tfVars, ccVars, cfVars, chVars, ldVars>>

Next ==
    \/ \E t \in Tables : SourceWrite(t)
    \/ NewRun
    \/ StartRun
    \/ ExtractConnect
    \/ ExtractRows
    \/ ExtractMax
    \/ FullLoadWatermark
    \/ ExtractReference
    \/ UpdateWatermarks
    \/ ExtractLog
    \/ Transform
    \/ LoadConnect
    \/ LoadDimExecute
    \/ LoadDimEnd
    \/ LoadProcedure
    \/ LoadLog
    \/ Finish
    \/ CompleteSuccess
    \/ Handler
    \/ Return

\* The pipeline as main() runs it: orchestrator runs, one at a time, over a source
\* that grows between the runs.
Spec == Init /\ [][Next]_vars

NextExtract ==
    \/ \E t \in Tables : SourceWrite(t)
    \/ \E t \in Tables : SourceWriteSameTick(t)
    \/ DeleteUser
    \/ BeginExtract
    \/ ExtractRows
    \/ ExtractMax
    \/ FullLoadWatermark
    \/ ExtractReference
    \/ UpdateWatermarks
    \/ ExtractReturn
    \/ ExtractAbort

\* Extractor.run_extract called directly, any number of times in a row, in either
\* mode, with or without a run id, over a source whose rows are added and deleted
\* between the calls.
SpecExtract == Init /\ [][NextExtract]_vars

-----------------------------------------------------------------------------
\* ETLLogger and timed_step.

\* create_etl_logger(run_id, db_config): either argument may be left out.
CreateLogger ==
    /\ tsPc = "out"
    /\ \E c \in BOOLEAN, r \in {0, 1} : lg' = [db_config |-> c, run_id |-> r]
    /\ lg' # lg
    /\ UNCHANGED <<tsPc, tsRowsFailed, tsStatus, tsErr, tsRaised, tsUses, stepLog>>
    /\ UNCHANGED <<etlVars, tfVars, ccVars, cfVars, chVars, ldVars>>

\* timed_step up to the yield: status = 'running', error_msg = None, fresh metrics.
EnterStep ==
    /\ tsPc = "out"
    /\ tsUses < MaxSteps
    /\ tsUses' = tsUses + 1
    /\ tsPc' = "body"
    /\ tsRowsFailed' = 0
    /\ tsStatus' = "running"
    /\ tsErr' = None
    /\ tsRaised' = None
    /\ UNCHANGED <<lg, stepLog>>
    /\ UNCHANGED <<etlVars, tfVars, ccVars, cfVars, chVars, ldVars>>

\* timed_step: the status computed when the body returns.
StepStatus(rows_failed) == IF rows_failed = 0 THEN "success" ELSE "partial"

\* The body of the with statement, then timed_step's try/except around the yield:
\* the body returns having counted failed rows or not, or it raises.
StepBody ==
    /\ tsPc = "body"
    /\ \/ \E n \in {0, 1} :
            /\ tsRowsFailed' = n
            /\ tsStatus' = StepStatus(n)
            /\ UNCHANGED <<tsErr, tsRaised>>
       \/ /\ tsStatus' = "failed"
          /\ tsErr' = "body"
          /\ tsRaised' = "body"
          /\ UNCHANGED tsRowsFailed
    /\ tsPc' = "exit"
    /\ UNCHANGED <<lg, tsUses, stepLog>>
    /\ UNCHANGED <<etlVars, tfVars, ccVars, cfVars, chVars, ldVars>>

\* A log_step_to_db without the test of db_config and run_id.
LogConfiguredAlways(l) == TRUE

\* ETLLogger.log_step_to_db: the test that precedes the connection.
LogConfigured(l) == l.db_config /\ TruthyId(l.run_id)

\* timed_step's finally block: log_step_to_db is called once.  It returns at once
\* without db_config or run_id; otherwise it inserts one row, or the insert
\* raises pymysql.Error, which it logs and swallows, or the connection cannot be
\* opened and conn.close() in its finally block raises UnboundLocalError.
ExitStep ==
    /\ tsPc = "exit"
    /\ \/ /\ ~LogConfigured(lg)
          /\ UNCHANGED <<stepLog, tsRaised>>
       \/ /\ LogConfigured(lg)
          /\ stepLog' = Append(stepLog, [run_id |-> lg.run_id, status |-> tsStatus,
                                         error |-> tsErr])
          /\ UNCHANGED tsRaised
       \/ /\ LogConfigured(lg)
          /\ UNCHANGED <<stepLog, tsRaised>>
       \/ /\ LogConfigured(lg)
          /\ tsRaised' = "UnboundLocalError"
          /\ UNCHANGED stepLog
    /\ tsPc' = "out"
    /\ UNCHANGED <<lg, tsRowsFailed, tsStatus, tsErr, tsUses>>
    /\ UNCHANGED <<etlVars, tfVars, ccVars, cfVars, chVars, ldVars>>

NextStep ==
    \/ CreateLogger
    \/ EnterStep
    \/ StepBody
    \/ ExitStep

\* Uses of timed_step, one after another, with loggers created with or without a
\* run id and a database configuration.
SpecStep == Init /\ [][NextStep]_vars

-----------------------------------------------------------------------------
\* Two run_extract calls running at the same time on the user table,
\* each on its own connection, while the source is written.

\* The transaction isolation level of the source database; the code sets none, so
\* the server's setting applies.
Isolations == {"READ COMMITTED", "REPEATABLE READ"}

\* Every variable of the ETL run that the concurrent calls leave alone.
ccFrame == <<src, runLog, orchs, calls, mode, dryRun, status, errorMsg, runId, metrics,
             pc, ti, exc, raised, exWm, results, toUpdate, tOut, loaderConnected,
             loadResults, tx, stmtFailed, loaded, wmAtStart, trace>>

\* A run that has not returned or raised yet.
Running(r) == cc[r].pc \notin {"done", "failed"}

\* INSERT of a user row before the runs have ended: its timestamp is NOW(), in the
\* clock tick of the latest row or in the next one.
ConcSourceWrite ==
    /\ \E r \in Runs : Running(r)
    /\ Cardinality(ccSrc) < MaxRows
    /\ \E tick \in {0, 1} :
        /\ now + tick >= 1
        /\ now + tick <= MaxTs
        /\ now' = now + tick
        /\ ccSrc' = ccSrc \cup {[id |-> Cardinality(ccSrc) + 1, ts |-> now + tick]}
    /\ UNCHANGED <<wm, ccFrame, cc, ccStart>>
    /\ UNCHANGED <<stepVars, tfVars, cfVars, chVars, ldVars>>

\* The rows a query of run r sees: under REPEATABLE READ the snapshot of the
\* transaction's first read, else the rows committed so far.
Visible(r) ==
    IF ccStart.isolation = "REPEATABLE READ" THEN cc[r].snapshot ELSE ccSrc

\* run_extract, incremental mode: get_watermark, the first read of the connection.
ConcGetWatermark(r) ==
    /\ cc[r].pc = "new"
    /\ cc' = [cc EXCEPT ![r] = [@ EXCEPT !.pc = "rows", !.snapshot = ccSrc,
                                         !.wm = GetWatermark("user")]]
    /\ IF ccStart.begun
       THEN UNCHANGED ccStart
       ELSE \E level \in Isolations :
               ccStart' = [begun |-> TRUE, isolation |-> level,
                           wm |-> GetWatermark("user"), rows |-> ccSrc]
    /\ UNCHANGED <<now, wm, ccFrame, ccSrc>>
    /\ UNCHANGED <<stepVars, tfVars, cfVars, chVars, ldVars>>

\* run_extract, full mode: extract_full is the first read of the connection and
\* returns every row; the MAX query of _update_full_load_watermarks comes later.
ConcExtractFull(r) ==
    /\ cc[r].pc = "new"
    /\ cc' = [cc EXCEPT ![r] = [@ EXCEPT !.pc = "max", !.snapshot = ccSrc,
                                         !.rows = ccSrc]]
    /\ IF ccStart.begun
       THEN UNCHANGED ccStart
       ELSE \E level \in Isolations :
               ccStart' = [begun |-> TRUE, isolation |-> level,
                           wm |-> GetWatermark("user"), rows |-> ccSrc]
    /\ UNCHANGED <<now, wm, ccFrame, ccSrc>>
    /\ UNCHANGED <<stepVars, tfVars, cfVars, chVars, ldVars>>

\* extract_incremental: the row query; with no rows the result's watermark is the
\* watermark passed in.
ConcExtractRows(r) ==
    /\ cc[r].pc = "rows"
    /\ LET rows == {x \in Visible(r) : x.ts > cc[r].wm}
       IN  cc' = [cc EXCEPT ![r] =
                    IF rows # {}
                    THEN [@ EXCEPT !.pc = "max", !.rows = rows]
                    ELSE [@ EXCEPT !.pc = "update",
                                   !.watermark = EmptyExtractWatermark(cc[r].wm)]]
    /\ UNCHANGED <<now, wm, ccFrame, ccSrc, ccStart>>
    /\ UNCHANGED <<stepVars, tfVars, cfVars, chVars, ldVars>>

\* extract_incremental, and _update_full_load_watermarks in full mode:
\* SELECT MAX(timestamp_col) over the whole table.
ConcExtractMax(r) ==
    /\ cc[r].pc = "max"
    /\ cc' = [cc EXCEPT ![r] =
                [@ EXCEPT !.pc = "update",
                          !.watermark = IF Visible(r) = {} THEN NoneTs
                                        ELSE Max({x.ts : x \in Visible(r)})]]
    /\ UNCHANGED <<now, wm, ccFrame, ccSrc, ccStart>>
    /\ UNCHANGED <<stepVars, tfVars, cfVars, chVars, ldVars>>

\* run_extract: update_watermark when the result has a watermark, then return.
ConcUpdateWatermark(r) ==
    /\ cc[r].pc = "update"
    /\ wm' = IF TruthyTs(cc[r].watermark)
             THEN UpdateWatermark(wm, "user", cc[r].watermark, r)
             ELSE wm
    /\ cc' = [cc EXCEPT ![r] = [@ EXCEPT !.pc = "done"]]
    /\ UNCHANGED <<now, ccFrame, ccSrc, ccStart>>
    /\ UNCHANGED <<stepVars, tfVars, cfVars, chVars, ldVars>>

\* A statement of run r raises: run_extract raises and stores nothing more.
ConcFail(r) ==
    /\ Running(r)
    /\ cc' = [cc EXCEPT ![r] = [@ EXCEPT !.pc = "failed"]]
    /\ UNCHANGED <<now, wm, ccFrame, ccSrc, ccStart>>
    /\ UNCHANGED <<stepVars, tfVars, cfVars, chVars, ldVars>>

NextConcurrent ==
    \/ ConcSourceWrite
    \/ \E r \in Runs : ConcGetWatermark(r)
    \/ \E r \in Runs : ConcExtractFull(r)
    \/ \E r \in Runs : ConcExtractRows(r)
    \/ \E r \in Runs : ConcExtractMax(r)
    \/ \E r \in Runs : ConcUpdateWatermark(r)
    \/ \E r \in Runs : ConcFail(r)

SpecConcurrent == Init /\ [][NextConcurrent]_vars

-----------------------------------------------------------------------------
\* Connection configuration: get_db_config, and the connect steps of the
\* orchestrator, the Extractor and the Loader.

\* The keys of a connection config and the environment variable behind each.
ConfigKeys == {"host", "user", "password", "database"}
EnvVar == [host |-> "MYSQL_HOST", user |-> "MYSQL_USER", password |-> "MYSQL_PASSWORD",
           database |-> "MYSQL_DATABASE"]

\* The literals run_etl.get_db_config falls back to.
ConfigDefault == [host |-> "micro-lending.cmvo24soe2b0.us-east-1.rds.amazonaws.com",
                  user |-> "admin", password |-> "micropass",
                  database |-> "microlending"]

\* The literals Loader.connect falls back to.
LoaderDefault == [host |-> "localhost", user |-> "root", password |-> "",
                  database |-> "microlending"]

\* The literals Extractor.connect falls back to, for the optional parameters.
ExtractorDefault == [password |-> "", database |-> "microlending"]

\* run_etl.get_db_config: os.getenv(variable, literal) for each key.
get_db_config(env) ==
    [k \in ConfigKeys |-> IF EnvVar[k] \in env THEN "env" ELSE ConfigDefault[k]]

\* dict.get(key, default).
Get(config, k, default) == IF k \in DOMAIN config THEN config[k] ELSE default

\* The process sets one of the MYSQL_* variables before it starts.
Setenv ==
    /\ cfPc = "start"
    /\ \E k \in ConfigKeys :
        /\ EnvVar[k] \notin cfEnv
        /\ cfEnv' = cfEnv \cup {EnvVar[k]}
    /\ UNCHANGED <<cfConfig, cfPipeline, cfPc, cfConns, cfError>>
    /\ UNCHANGED <<etlVars, stepVars, tfVars, ccVars, chVars, ldVars>>

\* ETLOrchestrator.__init__: self.config = get_db_config().
OrchestratorConfig ==
    /\ cfPc = "start"
    /\ cfConfig' = get_db_config(cfEnv)
    /\ cfPipeline' = TRUE
    /\ cfPc' = "start_run"
    /\ UNCHANGED <<cfEnv, cfConns, cfError>>
    /\ UNCHANGED <<etlVars, stepVars, tfVars, ccVars, chVars, ldVars>>

\* Extractor(connection_config) or Loader(connection_config) built by a caller with
\* its own config dict, which may lack keys.
CallerConfig ==
    /\ cfPc = "start"
    /\ \E keys \in SUBSET ConfigKeys : cfConfig' = [k \in keys |-> "caller"]
    /\ cfPipeline' = FALSE
    /\ cfPc' \in {"extractor", "loader"}
    /\ UNCHANGED <<cfEnv, cfConns, cfError>>
    /\ UNCHANGED <<etlVars, stepVars, tfVars, ccVars, chVars, ldVars>>

\* pymysql.connect is called with these parameters; it connects, or it raises and
\* the step ends with that exception.
Connect(by, host, user, password, next) ==
    /\ cfConns' = Append(cfConns, [by |-> by, host |-> host, user |-> user,
                                   password |-> password])
    /\ \/ cfPc' = next /\ UNCHANGED cfError
       \/ cfPc' = "end" /\ cfError' = "OperationalError"

\* ETLOrchestrator.start_run: pymysql.connect(**self.config).
StartRunConnect ==
    /\ cfPc = "start_run"
    /\ Connect("start_run", cfConfig.host, cfConfig.user, cfConfig.password, "extractor")
    /\ UNCHANGED <<cfEnv, cfConfig, cfPipeline>>
    /\ UNCHANGED <<etlVars, stepVars, tfVars, ccVars, chVars, ldVars>>

\* Extractor.connect: ValueError when host or user is missing, else
\* pymysql.connect.
ExtractorConnect ==
    /\ cfPc = "extractor"
    /\ IF "host" \notin DOMAIN cfConfig \/ "user" \notin DOMAIN cfConfig
       THEN /\ cfError' = "ValueError"
            /\ cfPc' = "end"
            /\ UNCHANGED cfConns
       ELSE Connect("extractor", cfConfig.host, cfConfig.user,
                    Get(cfConfig, "password", ExtractorDefault.password),
                    IF cfPipeline THEN "loader" ELSE "end")
    /\ UNCHANGED <<cfEnv, cfConfig, cfPipeline>>
    /\ UNCHANGED <<etlVars, stepVars, tfVars, ccVars, chVars, ldVars>>

\* Loader.connect: pymysql.connect with config.get(key, literal) for every key.
LoaderConnect ==
    /\ cfPc = "loader"
    /\ Connect("loader", Get(cfConfig, "host", LoaderDefault.host),
               Get(cfConfig, "user", LoaderDefault.user),
               Get(cfConfig, "password", LoaderDefault.password), "end")
    /\ UNCHANGED <<cfEnv, cfConfig, cfPipeline>>
    /\ UNCHANGED <<etlVars, stepVars, tfVars, ccVars, chVars, ldVars>>

NextConnect ==
    \/ Setenv
    \/ OrchestratorConfig
    \/ CallerConfig
    \/ StartRunConnect
    \/ ExtractorConnect
    \/ LoaderConnect

SpecConnect == Init /\ [][NextConnect]_vars

-----------------------------------------------------------------------------
\* Transformer: validation rules.

\* A numeric field holding None, and one holding a string that is no number.
NullVal == -1000
NotANumber == -1001

\* The fields of the rows that hold strings; None is their null.
StrFields == {"email", "role", "status", "currency_code"}

\* row.get(field) is None.
IsNull(row, f) == IF f \in StrFields THEN row[f] = None ELSE row[f] = NullVal

\* A ValidationError.
ValidationError(table, row, f, type) ==
    [table |-> table, record_id |-> row.id, field |-> f, error_type |-> type]

\* Transformer.validate_not_null: one NULL_VALUE error per required field that is
\* null, in the order of the field list.
RECURSIVE validate_not_null(_, _, _)
validate_not_null(row, fields, table) ==
    IF fields = <<>> THEN <<>>
    ELSE (IF IsNull(row, Head(fields))
          THEN <<ValidationError(table, row, Head(fields), "NULL_VALUE")>>
          ELSE <<>>) \o validate_not_null(row, Tail(fields), table)

\* Transformer.validate_range: nothing for None, INVALID_TYPE when float(value)
\* fails, OUT_OF_RANGE outside [min_val, max_val].
validate_range(row, f, min_val, max_val, table) ==
    IF row[f] = NullVal THEN <<>>
    ELSE IF row[f] = NotANumber THEN <<ValidationError(table, row, f, "INVALID_TYPE")>>
    ELSE IF row[f] < min_val \/ row[f] > max_val
    THEN <<ValidationError(table, row, f, "OUT_OF_RANGE")>>
    ELSE <<>>

\* Transformer.validate_enum.
validate_enum(row, f, allowed, table) ==
    IF row[f] # None /\ row[f] \notin allowed
    THEN <<ValidationError(table, row, f, "INVALID_ENUM")>>
    ELSE <<>>

\* Transformer.validate_foreign_key.
validate_foreign_key(row, f, valid_ids, table) ==
    IF row[f] # NullVal /\ row[f] \notin valid_ids
    THEN <<ValidationError(table, row, f, "INVALID_FK")>>
    ELSE <<>>

\* Transformer.check_duplicates from position i on, seen holding the earlier keys:
\* one DUPLICATE error per row whose key was seen before.
RECURSIVE check_duplicates_from(_, _, _, _)
check_duplicates_from(rows, table, i, seen) ==
    IF i > Len(rows) THEN <<>>
    ELSE (IF rows[i].id \in seen
          THEN <<ValidationError(table, rows[i], "id", "DUPLICATE")>>
          ELSE <<>>) \o check_duplicates_from(rows, table, i + 1, seen \cup {rows[i].id})

\* Transformer.check_duplicates(rows, 'id', table).
check_duplicates(rows, table) == check_duplicates_from(rows, table, 1, {})

-----------------------------------------------------------------------------
\* Transformer: transform_users, transform_loans, run_transform.
\* Money is kept in integers: interest_rate in tenths of a percent (85 is 8.5),
\* interest_amount in cents, total_amount in 1/12000 of a unit (the exact value
\* of principal + principal * rate/100 * term/12), fx_rate in hundredths.

\* TransformResult, and the outcome of a call that raised instead of returning.
TransformResult(rows, rejected, errors) ==
    [raised |-> FALSE, rows |-> rows, rejected_count |-> rejected, errors |-> errors]
TransformRaised ==
    [raised |-> TRUE, rows |-> <<>>, rejected_count |-> 0, errors |-> <<>>]

\* Collecting the errors of a row without counting the row.
RejectUncounted(acc, row_errors) ==
    [acc EXCEPT !.errors = @ \o row_errors]

\* The branch taken when row_errors is not empty: the errors are collected, the
\* row is counted as rejected, and the loop continues with the next row.
Reject(acc, row_errors) ==
    [acc EXCEPT !.errors = @ \o row_errors, !.rejected_count = @ + 1]

\* transformed.append(row).
Keep(acc, row) == [acc EXCEPT !.rows = Append(@, row)]

\* The fallback list of roles and of loan statuses.
ValidRoles == {"borrower", "lender", "admin"}
ValidStatuses == {"pending", "approved", "rejected", "withdrawn",
                  "active", "paid_off", "defaulted", "cancelled"}

\* Transformer.get_credit_tier.
get_credit_tier(credit_score) ==
    IF credit_score = NullVal THEN "NO_SCORE"
    ELSE IF credit_score >= 750 THEN "Excellent"
    ELSE IF credit_score >= 650 THEN "Good"
    ELSE IF credit_score >= 550 THEN "Fair"
    ELSE "Poor"

\* Transformer.get_term_category.
get_term_category(term_months) ==
    IF term_months = NullVal THEN "unknown"
    ELSE IF term_months <= 6 THEN "short"
    ELSE IF term_months <= 24 THEN "medium"
    ELSE "long"

\* The validation rules transform_users applies to one user, all of them, in order.
UserErrors(user) ==
    validate_not_null(user, <<"id", "email", "role">>, "user")
    \o validate_enum(user, "role", ValidRoles, "user")
    \o validate_range(user, "credit_score", 300, 850, "user")

\* The dim_user row of a valid user.
UserRow(user) ==
    [user_id |-> user.id, email |-> user.email, role |-> user.role,
     credit_score |-> user.credit_score,
     credit_tier |-> get_credit_tier(user.credit_score)]

\* The loop of transform_users from row i on.
RECURSIVE UsersLoop(_, _, _)
UsersLoop(users, i, acc) ==
    IF i > Len(users) THEN acc
    ELSE LET row_errors == UserErrors(users[i])
         IN  IF row_errors # <<>>
             THEN UsersLoop(users, i + 1, Reject(acc, row_errors))
             ELSE UsersLoop(users, i + 1, Keep(acc, UserRow(users[i])))

\* Transformer.transform_users.
transform_users(users) == UsersLoop(users, 1, TransformResult(<<>>, 0, <<>>))

\* Validation of a loan that stops at the first rule that fails.
LoanErrorsFirstOnly(loan, user_ids) ==
    LET all == validate_not_null(loan, <<"id", "borrower_id", "principal_amount",
                                         "interest_rate", "term_months">>, "loan")
               \o validate_foreign_key(loan, "borrower_id", user_ids, "loan")
               \o validate_enum(loan, "status", ValidStatuses, "loan")
               \o validate_range(loan, "interest_rate", 0, 1000, "loan")
    IN  IF all = <<>> THEN <<>> ELSE <<Head(all)>>

\* The validation rules transform_loans applies to one loan, all of them, in order.
LoanErrors(loan, user_ids) ==
    validate_not_null(loan, <<"id", "borrower_id", "principal_amount",
                              "interest_rate", "term_months">>, "loan")
    \o validate_foreign_key(loan, "borrower_id", user_ids, "loan")
    \o validate_enum(loan, "status", ValidStatuses, "loan")
    \o validate_range(loan, "interest_rate", 0, 1000, "loan")

\* Decimal(str(value)) raises InvalidOperation for a value that is no number.
DecimalRaises(loan) ==
    \/ loan.principal_amount = NotANumber
    \/ loan.interest_rate = NotANumber
    \/ loan.term_months = NotANumber

\* The error built for a non-USD currency that has no FX rate.
MissingFxRate(loan, fx_rates) ==
    IF loan.currency_code # "USD" /\ loan.currency_code \notin DOMAIN fx_rates
    THEN <<ValidationError("loan", loan, "currency_code", "MISSING_FX_RATE")>>
    ELSE <<>>

\* fx_rates.get(currency, 1.0).
FxRate(loan, fx_rates) ==
    IF loan.currency_code \in DOMAIN fx_rates THEN fx_rates[loan.currency_code] ELSE 100

\* round(x, 2) of x = n/12000, in cents: Decimal rounds half to even. (The inputs
\* of the model have no x that lies halfway, where the 28 digits of Decimal could
\* round otherwise than the exact value.)
RoundCents(n) ==
    LET q == n \div 120
        r == n % 120
    IN  IF r > 60 \/ (r = 60 /\ q % 2 = 1) THEN q + 1 ELSE q

\* principal * (interest_rate / 100) * (term_months / 12), in 1/12000.
InterestAmount(loan) == loan.principal_amount * loan.interest_rate * loan.term_months

\* principal + interest_amount, in 1/12000.
TotalAmount(loan) == loan.principal_amount * 12000 + InterestAmount(loan)

\* The fact_loan_transactions row of a valid loan.
LoanRow(loan, fx_rates) ==
    [loan_id |-> loan.id, user_id |-> loan.borrower_id,
     principal_amount |-> loan.principal_amount,
     interest_amount |-> RoundCents(InterestAmount(loan)),
     total_amount |-> TotalAmount(loan),
     interest_rate |-> loan.interest_rate,
     term_months |-> loan.term_months,
     term_category |-> get_term_category(loan.term_months),
     status |-> loan.status,
     currency_code |-> loan.currency_code,
     fx_rate |-> FxRate(loan, fx_rates)]

\* The loop of transform_loans from row i on. The MISSING_FX_RATE error is appended
\* to row_errors after row_errors was tested, and row_errors is not read again.
RECURSIVE LoansLoop(_, _, _, _, _)
LoansLoop(loans, user_ids, fx_rates, i, acc) ==
    IF i > Len(loans) THEN acc
    ELSE LET row_errors == LoanErrors(loans[i], user_ids)
             late_row_errors == row_errors \o MissingFxRate(loans[i], fx_rates)
         IN  IF row_errors # <<>>
             THEN LoansLoop(loans, user_ids, fx_rates, i + 1, Reject(acc, row_errors))
             ELSE IF DecimalRaises(loans[i])
             THEN TransformRaised
             ELSE LoansLoop(loans, user_ids, fx_rates, i + 1,
                            Keep(acc, LoanRow(loans[i], fx_rates)))

\* Transformer.transform_loans, fx_rates being market_data['fx_rates'].
transform_loans(loans, user_ids, fx_rates) ==
    LoansLoop(loans, user_ids, fx_rates, 1, TransformResult(<<>>, 0, <<>>))

\* calculate_portfolio_snapshot sums the users' credit scores that are not None.
SnapshotRaises(users) == \E i \in 1..Len(users) : users[i].credit_score = NotANumber

\* Transformer.run_transform: the results for dim_user and fact_loan_transactions.
run_transform(users, loans, fx_rates) ==
    LET user_ids == {users[i].id : i \in 1..Len(users)}
        user_dup_errors == check_duplicates(users, "user")
        loan_dup_errors == check_duplicates(loans, "loan")
        dim_user == transform_users(users)
        fact == transform_loans(loans, user_ids, fx_rates)
    IN  IF fact.raised \/ SnapshotRaises(users)
        THEN [raised |-> TRUE, dim_user |-> NoTransform,
              fact_loan_transactions |-> NoTransform]
        ELSE [raised |-> FALSE,
              dim_user |-> [rows |-> dim_user.rows,
                            rejected_count |-> dim_user.rejected_count,
                            errors |-> dim_user.errors \o user_dup_errors],
              fact_loan_transactions |->
                  [rows |-> fact.rows, rejected_count |-> fact.rejected_count,
                   errors |-> fact.errors \o loan_dup_errors]]

-----------------------------------------------------------------------------
\* Transformer: the calls, on bounded inputs.

\* A user and a loan with nothing wrong, and the values a field is drawn from.
BaseUser == [id |-> 1, email |-> "user@email.com", role |-> "borrower",
             credit_score |-> 700]
BaseLoan == [id |-> 1, borrower_id |-> 1, principal_amount |-> 5000,
             interest_rate |-> 85, term_months |-> 12, status |-> "active",
             currency_code |-> "USD"]
UserDomain == [id : {1, 2}, email : {"user@email.com", None},
               role : {"borrower", "invalid_role", None},
               credit_score : {700, 1000, NotANumber}]
LoanDomain == [id : {1, 2}, borrower_id : {1, 999},
               principal_amount : {5000, -5000, NullVal, NotANumber},
               interest_rate : {85, 1500, NotANumber},
               term_months : {12, 1, -6, NotANumber},
               status : {"active", "invalid_status"},
               currency_code : {"USD", "EUR", "XXX"}]

\* The number of fields other than id in which a loan differs from BaseLoan.
Deviations(loan) ==
    Cardinality({f \in DOMAIN BaseLoan \ {"id"} : loan[f] # BaseLoan[f]})

\* The loans given to transform_loans: one thing wrong at most, or any combination
\* of a missing borrower, a bad status and a bad rate.
LoanRows ==
    {l \in LoanDomain :
        \/ Deviations(l) <= 1
        \/ (l.principal_amount = 5000 /\ l.term_months = 12 /\ l.currency_code = "USD")}

\* The users and loans given to run_transform.
RunUserRows == {u \in UserDomain : u.role = "borrower" /\ u.credit_score = 700}
RunLoanRows == {l \in LoanRows : l.borrower_id = 1 /\ Deviations(l) = 0}
                   \cup {l \in LoanRows : l.principal_amount = NotANumber}

\* The lists of at most MaxBatch rows of S.
Batches(S) == UNION {[1..n -> S] : n \in 0..MaxBatch}

\* market_data['fx_rates']: empty, or a rate for EUR.
FxTables == {<<>>, [c \in {"EUR"} |-> 92]}

\* The set of valid user ids of a direct transform_loans call.
ValidUserIds == {1}

\* transformer.transform_users(users).
CallTransformUsers ==
    /\ tfFn = "none"
    /\ \E users \in Batches(UserDomain) :
        /\ tfIn' = [NoInput EXCEPT !.users = users]
        /\ tfResult' = LET r == transform_users(users)
                       IN  [raised |-> r.raised,
                            dim_user |-> [rows |-> r.rows,
                                          rejected_count |-> r.rejected_count,
                                          errors |-> r.errors],
                            fact_loan_transactions |-> NoTransform]
    /\ tfFn' = "transform_users"
    /\ UNCHANGED <<etlVars, stepVars, ccVars, cfVars, chVars, ldVars>>

\* transformer.transform_loans(loans, user_ids).
CallTransformLoans ==
    /\ tfFn = "none"
    /\ \E loans \in Batches(LoanRows), fx_rates \in FxTables :
        /\ tfIn' = [NoInput EXCEPT !.loans = loans, !.user_ids = ValidUserIds,
                                   !.fx_rates = fx_rates]
        /\ tfResult' = LET r == transform_loans(loans, ValidUserIds, fx_rates)
                       IN  [raised |-> r.raised,
                            dim_user |-> NoTransform,
                            fact_loan_transactions |->
                                [rows |-> r.rows, rejected_count |-> r.rejected_count,
                                 errors |-> r.errors]]
    /\ tfFn' = "transform_loans"
    /\ UNCHANGED <<etlVars, stepVars, ccVars, cfVars, chVars, ldVars>>

\* transformer.run_transform(extract_results).
CallRunTransform ==
    /\ tfFn = "none"
    /\ \E users \in Batches(RunUserRows), loans \in Batches(RunLoanRows),
          fx_rates \in FxTables :
        /\ tfIn' = [users |-> users, loans |-> loans,
                    user_ids |-> {users[i].id : i \in 1..Len(users)},
                    fx_rates |-> fx_rates,
                    source_user_ids |-> {users[i].id : i \in 1..Len(users)}]
        /\ tfResult' = run_transform(users, loans, fx_rates)
    /\ tfFn' = "run_transform"
    /\ UNCHANGED <<etlVars, stepVars, ccVars, cfVars, chVars, ldVars>>

\* Extractor.extract_incremental over a table whose row i has the timestamp
\* updated[i]: the rows above the watermark, in an order of their timestamps.
extract_incremental(table, updated, watermark) ==
    LET selected == {i \in DOMAIN table : updated[i] > watermark}
        n == Cardinality(selected)
        orders == {o \in [1..n -> selected] :
                      \A a, b \in 1..n :
                          a < b => /\ o[a] # o[b]
                                   /\ updated[o[a]] <= updated[o[b]]}
    IN  {[k \in 1..n |-> table[o[k]]] : o \in orders}

\* Extractor.extract_users: incremental only with a watermark, else the full table.
extract_users(extract_mode, table, updated, watermark) ==
    IF extract_mode = "incremental" /\ watermark # NoneTs
    THEN extract_incremental(table, updated, watermark)
    ELSE {table}

\* The user tables of the source: rows with distinct ids.
UserTables == {t \in Batches(RunUserRows) : Cardinality({t[i].id : i \in 1..Len(t)}) = Len(t)}

\* An incremental run: run_extract reads the user watermark and extracts the users
\* above it, and run_transform gets the extracted users and loans.
CallRunTransformIncremental ==
    /\ tfFn = "none"
    /\ \E table \in UserTables, user_wm \in {NoneTs} \cup 0..MaxTs,
          loans \in Batches(RunLoanRows), fx_rates \in FxTables :
        \E updated \in [DOMAIN table -> 1..MaxTs] :
        \E users \in extract_users("incremental", table, updated, user_wm) :
            /\ tfIn' = [users |-> users, loans |-> loans,
                        user_ids |-> {users[i].id : i \in 1..Len(users)},
                        fx_rates |-> fx_rates,
                        source_user_ids |-> {table[i].id : i \in 1..Len(table)}]
            /\ tfResult' = run_transform(users, loans, fx_rates)
    /\ tfFn' = "run_transform"
    /\ UNCHANGED <<etlVars, stepVars, ccVars, cfVars, chVars, ldVars>>

\* The fixture of demo_data_quality_issues: a negative principal, a rate above 100,
\* a negative term, an invalid status, a null principal.
ProblematicLoans ==
    << [BaseLoan EXCEPT !.id = 201, !.principal_amount = -5000],
       [BaseLoan EXCEPT !.id = 202, !.interest_rate = 1500],
       [BaseLoan EXCEPT !.id = 203, !.term_months = -6],
       [BaseLoan EXCEPT !.id = 204, !.status = "invalid_status"],
       [BaseLoan EXCEPT !.id = 205, !.principal_amount = NullVal] >>

\* demo_data_quality_issues: transform_loans(problematic_loans, {1}) on a
\* Transformer without market data.
DemoDataQualityIssues ==
    /\ tfFn = "none"
    /\ tfIn' = [NoInput EXCEPT !.loans = ProblematicLoans, !.user_ids = ValidUserIds]
    /\ tfResult' = LET r == transform_loans(ProblematicLoans, ValidUserIds, <<>>)
                   IN  [raised |-> r.raised,
                        dim_user |-> NoTransform,
                        fact_loan_transactions |->
                            [rows |-> r.rows, rejected_count |-> r.rejected_count,
                             errors |-> r.errors]]
    /\ tfFn' = "transform_loans"
    /\ UNCHANGED <<etlVars, stepVars, ccVars, cfVars, chVars, ldVars>>

\* The caller is done with the result; the next call starts afresh.
TransformDone ==
    /\ tfFn # "none"
    /\ tfFn' = "none"
    /\ tfIn' = NoInput
    /\ tfResult' = [raised |-> FALSE, dim_user |-> NoTransform,
                    fact_loan_transactions |-> NoTransform]
    /\ UNCHANGED <<etlVars, stepVars, ccVars, cfVars, chVars, ldVars>>

NextTransform ==
    \/ CallTransformUsers
    \/ CallTransformLoans
    \/ CallRunTransform
    \/ CallRunTransformIncremental
    \/ DemoDataQualityIssues
    \/ TransformDone

SpecTransform == Init /\ [][NextTransform]_vars

-----------------------------------------------------------------------------
\* The cache layer: RedisClient, CacheAside and the @cached decorator.

\* json.loads(json.dumps(value, default=str)): a datetime comes back as a string.
JsonRoundTrip(value) ==
    IF value.type = "datetime" THEN [type |-> "str", v |-> value.v] ELSE value

\* What a fetch_fn returns: None, a dict (a different one on each fetch, as the
\* mock of test_cache_patterns does), or a datetime.
FetchResults ==
    {PyNone, [type |-> "dict", v |-> "fetch_count 1"], [type |-> "dict", v |-> "fetch_count 2"],
     [type |-> "datetime", v |-> "2025-12-02 00:00:00"]}

\* A get_json that reports a miss whatever the key holds.
GetJsonAlwaysMiss(store, key, ok) == PyNone

\* RedisClient.get_json: RedisClient.get returns None on a RedisError, and None is
\* returned for a key that holds nothing.
get_json(store, key, ok) ==
    IF ~ok \/ store[key] = Absent THEN PyNone ELSE store[key]

\* RedisClient.set_json: the value is stored as JSON unless the SET fails.
set_json(store, key, value, ok) ==
    IF ok THEN [store EXCEPT ![key] = JsonRoundTrip(value)] ELSE store

\* The function test_decorator wraps: expensive_operation(x, y) = x + y.
expensive_operation(args) == [type |-> "int", v |-> ToString(args[1] + args[2])]

\* CacheAside.get_or_set(key, fetch_fn, ttl); get_ok and set_ok tell whether the
\* Redis commands succeed, data is what fetch_fn returns if it is called.
GetOrSet ==
    /\ \E key \in CacheKeys, get_ok \in BOOLEAN, set_ok \in BOOLEAN, data \in FetchResults :
        LET cached == get_json(chStore, key, get_ok)
        IN  IF cached # PyNone
            THEN /\ chLast' = [NoOperation EXCEPT !.op = "get_or_set", !.key = key,
                                  !.held = chStore[key] # Absent, !.result = cached]
                 /\ UNCHANGED <<chStore, chOrigin>>
            ELSE /\ chLast' = [NoOperation EXCEPT !.op = "get_or_set", !.key = key,
                                  !.held = chStore[key] # Absent,
                                  !.get_failed = ~get_ok, !.fetched = TRUE,
                                  !.set_failed = (data # PyNone /\ ~set_ok),
                                  !.result = data]
                 /\ chStore' = IF data # PyNone THEN set_json(chStore, key, data, set_ok)
                               ELSE chStore
                 /\ UNCHANGED chOrigin
    /\ UNCHANGED <<etlVars, stepVars, tfVars, ccVars, cfVars, ldVars>>

\* CacheAside.invalidate(key): DELETE; RedisClient.delete returns 0 on a RedisError.
Invalidate ==
    /\ \E key \in CacheKeys, ok \in BOOLEAN :
        /\ chStore' = IF ok THEN [chStore EXCEPT ![key] = Absent] ELSE chStore
        /\ chLast' = [NoOperation EXCEPT !.op = "invalidate", !.key = key,
                         !.held = chStore[key] # Absent, !.set_failed = ~ok]
    /\ UNCHANGED chOrigin
    /\ UNCHANGED <<etlVars, stepVars, tfVars, ccVars, cfVars, ldVars>>

\* The TTL of an entry runs out: Redis removes the key.
Expire ==
    /\ \E key \in AllKeys :
        /\ chStore[key] # Absent
        /\ chStore' = [chStore EXCEPT ![key] = Absent]
        /\ chOrigin' = [chOrigin EXCEPT ![key] = <<>>]
        /\ chLast' = [NoOperation EXCEPT !.op = "expire", !.key = key, !.held = TRUE]
    /\ UNCHANGED <<etlVars, stepVars, tfVars, ccVars, cfVars, ldVars>>

\* A call of the function wrapped by @cached(ttl=60, key_prefix='test_func').
CachedCall ==
    /\ \E args \in ArgTuples, get_ok \in BOOLEAN, set_ok \in BOOLEAN :
        LET key == cache_key("test_func", args)
            cached_value == get_json(chStore, key, get_ok)
            result == expensive_operation(args)
        IN  IF cached_value # PyNone
            THEN /\ chLast' = [NoOperation EXCEPT !.op = "cached", !.key = key,
                                  !.args = args, !.origin = chOrigin[key],
                                  !.held = TRUE, !.result = cached_value]
                 /\ UNCHANGED <<chStore, chOrigin>>
            ELSE /\ chLast' = [NoOperation EXCEPT !.op = "cached", !.key = key,
                                  !.args = args, !.origin = chOrigin[key],
                                  !.held = chStore[key] # Absent,
                                  !.get_failed = ~get_ok, !.fetched = TRUE,
                                  !.set_failed = ~set_ok, !.result = result]
                 /\ chStore' = set_json(chStore, key, result, set_ok)
                 /\ chOrigin' = IF set_ok THEN [chOrigin EXCEPT ![key] = args]
                                ELSE chOrigin
    /\ UNCHANGED <<etlVars, stepVars, tfVars, ccVars, cfVars, ldVars>>

NextCache ==
    \/ GetOrSet
    \/ Invalidate
    \/ Expire
    \/ CachedCall

SpecCache == Init /\ [][NextCache]_vars

-----------------------------------------------------------------------------
\* Loader.load_dim_user, statement by statement.

\* The numbers of rows given to load_dim_user: none, few, the index threshold and
\* one more, and full batches with and without a remainder.
RowCounts ==
    {0, 1, BulkThreshold, BulkThreshold + 1}
        \cup {k * BATCH_SIZE + d : k \in 1..(MaxLoadBatches - 1), d \in {0, 1}}

\* loader.batch_size: BATCH_SIZE, or what the orchestrator sets.
BatchSizes == {BATCH_SIZE, 5 * BATCH_SIZE}

\* The number of turns of the loop over range(0, len(batch_values), batch_size).
NumBatches(n, batch_size) == (n + batch_size - 1) \div batch_size

\* DISABLE_INDEXES_ON_BULK and len(rows) > 100.
BulkLoad(n) == DISABLE_INDEXES_ON_BULK /\ n > BulkThreshold

\* The LoadResult of load_dim_user.
DimLoadResult(ok, staged, inserted) ==
    [success |-> ok, rows_staged |-> staged, rows_inserted |-> inserted]

\* The except clause of load_dim_user: rollback and a failed LoadResult.
DimLoadFailed ==
    /\ ldTx' = Rollback(ldTx)
    /\ ldResult' = DimLoadResult(FALSE, ldCall.rows, 0)
    /\ ldPc' = "done"

\* load_dim_user(rows) up to the try: with no rows a success result at once.
CallLoadDimUser ==
    /\ ldPc = "idle"
    /\ \E n \in RowCounts, batch_size \in BatchSizes :
        /\ ldCall' = [rows |-> n, batch_size |-> batch_size, batch |-> 1]
        /\ IF n = 0
           THEN /\ ldResult' = DimLoadResult(TRUE, 0, 0)
                /\ ldPc' = "done"
           ELSE /\ ldPc' = IF BulkLoad(n) THEN "disable" ELSE "batch"
                /\ UNCHANGED ldResult
    /\ UNCHANGED <<ldTx, ldTable, ldIndexes, ldFailedAt>>
    /\ UNCHANGED <<etlVars, stepVars, tfVars, ccVars, cfVars, chVars>>

\* disable_indexes: ALTER TABLE ... DISABLE KEYS and commit; a pymysql.Error is
\* logged as a warning.
DisableIndexes ==
    /\ ldPc = "disable"
    /\ \/ ldIndexes' = "disabled"
       \/ UNCHANGED ldIndexes
    /\ ldPc' = "batch"
    /\ UNCHANGED <<ldCall, ldTx, ldTable, ldResult, ldFailedAt>>
    /\ UNCHANGED <<etlVars, stepVars, tfVars, ccVars, cfVars, chVars>>

\* One turn of the executemany loop; a pymysql.Error ends the call in the except
\* clause.
ExecuteBatch ==
    /\ ldPc = "batch"
    /\ \/ /\ ldTx' = ldTx \cup {ldCall.batch}
          /\ IF ldCall.batch = NumBatches(ldCall.rows, ldCall.batch_size)
             THEN /\ ldPc' = "commit"
                  /\ UNCHANGED ldCall
             ELSE /\ ldCall' = [ldCall EXCEPT !.batch = @ + 1]
                  /\ UNCHANGED ldPc
          /\ UNCHANGED <<ldResult, ldFailedAt>>
       \/ /\ DimLoadFailed
          /\ ldFailedAt' = ldCall.batch
          /\ UNCHANGED ldCall
    /\ UNCHANGED <<ldTable, ldIndexes>>
    /\ UNCHANGED <<etlVars, stepVars, tfVars, ccVars, cfVars, chVars>>

\* connection.commit() after the loop.
CommitLoad ==
    /\ ldPc = "commit"
    /\ \/ /\ ldTable' = Commit(ldTable, ldTx)
          /\ ldTx' = {}
          /\ IF BulkLoad(ldCall.rows)
             THEN /\ ldPc' = "enable"
                  /\ UNCHANGED ldResult
             ELSE /\ ldPc' = "done"
                  /\ ldResult' = DimLoadResult(TRUE, ldCall.rows, ldCall.rows)
       \/ /\ DimLoadFailed
          /\ UNCHANGED ldTable
    /\ UNCHANGED <<ldCall, ldIndexes, ldFailedAt>>
    /\ UNCHANGED <<etlVars, stepVars, tfVars, ccVars, cfVars, chVars>>

\* enable_indexes after the commit, then the success LoadResult; a pymysql.Error
\* of the ALTER TABLE is logged as a warning.
EnableIndexes ==
    /\ ldPc = "enable"
    /\ \/ ldIndexes' = "enabled"
       \/ UNCHANGED ldIndexes
    /\ ldResult' = DimLoadResult(TRUE, ldCall.rows, ldCall.rows)
    /\ ldPc' = "done"
    /\ UNCHANGED <<ldCall, ldTx, ldTable, ldFailedAt>>
    /\ UNCHANGED <<etlVars, stepVars, tfVars, ccVars, cfVars, chVars>>

\* The caller has the LoadResult; the next call is followed on a fresh table.
LoadDimDone ==
    /\ ldPc = "done"
    /\ ldPc' = "idle"
    /\ ldCall' = NoLoad
    /\ ldTx' = {}
    /\ ldTable' = {}
    /\ ldIndexes' = "enabled"
    /\ ldResult' = NoLoadResult
    /\ ldFailedAt' = 0
    /\ UNCHANGED <<etlVars, stepVars, tfVars, ccVars, cfVars, chVars>>

NextLoadDim ==
    \/ CallLoadDimUser
    \/ DisableIndexes
    \/ ExecuteBatch
    \/ CommitLoad
    \/ EnableIndexes
    \/ LoadDimDone

SpecLoadDim == Init /\ [][NextLoadDim]_vars

-----------------------------------------------------------------------------
\* Properties of the extraction watermarks (checked under SpecExtract).

\* The rows of table t newer than the watermark stored when the call began.
NewRows(t) == {r \in src[t] : r > wmAtStart[t].value}

\* Extractor.run_extract has returned: the caller holds its results.
ExtractReturned == pc = "extract_log"

\* C1: across any sequence of full and incremental run_extract calls made one at
\* a time, the watermark_value stored for a table never decreases.
WatermarkNeverDecreases ==
    [][\A t \in Tables : wm'[t].value >= wm[t].value]_vars

\* A full-mode call with a run id has lowered the watermark of the user table.
WatermarkRewound ==
    /\ ExtractReturned
    /\ mode = "full"
    /\ wm["user"].value < wmAtStart["user"].value

EmptyExtractLeavesWatermark ==
    (ExtractReturned /\ mode = "incremental")
        => \A t \in Tables :
              NewRows(t) = {} => /\ results[t].watermark = NoneTs
                                 /\ wm[t] = wmAtStart[t]

\* An incremental call that found no new user row has rewritten the user
\* watermark record: last_run_id now names this call's run.
EmptyExtractWroteRecord ==
    /\ ExtractReturned
    /\ mode = "incremental"
    /\ NewRows("user") = {}
    /\ wm["user"].last_run_id # wmAtStart["user"].last_run_id

-----------------------------------------------------------------------------
\* Properties of an orchestrator run (checked under Spec).

\* The status a run is reported with: metrics['status'] once it has left
\* 'pending', before that the status of the run-log row when the run has one.
RunStatus ==
    IF status # "pending" THEN status
    ELSE IF TruthyId(runId) THEN runLog[runId].status
    ELSE "pending"

\* The status changes of pending -> running -> {success | partial | failed}.
StatusSteps ==
    {<<"pending", "running">>, <<"running", "success">>, <<"running", "partial">>,
     <<"running", "failed">>}

\* C4: the status of a run changes only along pending -> running -> one of
\* success, partial, failed: a terminal status is entered only from running and
\* never changes afterwards.
StatusPathOnly ==
    [][(pc # "idle" /\ pc' # "idle" /\ RunStatus' # RunStatus)
          => <<RunStatus, RunStatus'>> \in StatusSteps]_vars

\* A run that had set its status to success ended with status failed.
SuccessThenFailed ==
    /\ pc = "done"
    /\ exc = "complete_run"
    /\ status = "failed"

\* event a is in the trace of the run.
Occurred(a) == \E i \in DOMAIN trace : trace[i] = a

\* C5: if the extract, transform or load phase raises, run sets the status to
\* failed, updates the run-log record of the run to failed with the exception's
\* message, and re-raises that same exception.
PhaseFailureRecorded ==
    (pc = "done" /\ exc \in {"extract", "transform", "load"})
        => /\ status = "failed"
           /\ runLog[runId] = [status |-> "failed", error |-> exc]
           /\ raised = exc

\* A phase raised, and the run ended with its run-log record still running and
\* another exception raised to the caller.
PhaseFailureMasked ==
    /\ pc = "done"
    /\ exc \in {"extract", "transform", "load"}
    /\ runLog[runId].status = "running"
    /\ raised # exc

\* C6: a run whose extract, transform and load phases all returned ends with
\* status success, whatever the transform rejected and whatever the LoadResults.
PhasesReturnedSuccess ==
    (pc = "done" /\ Occurred(<<"load_done", "all">>)) => status = "success"

\* The three phases returned, a table failed to load, and the run ended failed.
PhasesReturnedFailed ==
    /\ pc = "done"
    /\ Occurred(<<"load_done", "all">>)
    /\ status = "failed"

\* every occurrence of event b in the trace comes after an occurrence of a.
Before(a, b) ==
    \A j \in DOMAIN trace : trace[j] = b => \E i \in 1..(j - 1) : trace[i] = a

\* C7: within a run the extract phase has completed for every table before the
\* transform phase begins, the transform phase has completed before the load
\* phase begins, and both dimension loads have finished before the fact and
\* portfolio procedures are invoked.
PhaseOrder ==
    /\ pc = "transform" => \A t \in Tables : Occurred(<<"extract", t>>) /\ results[t].done
    /\ \A t \in Tables : Before(<<"extract", t>>, <<"transform_done", "all">>)
    /\ pc \in {"load", "load_dim", "load_dim_end", "load_sp", "load_log"}
          => Occurred(<<"transform_done", "all">>)
    /\ \A g \in Targets : Before(<<"transform_done", "all">>, <<"load", g>>)
    /\ pc = "load_sp" => \A d \in Dimensions : Occurred(<<"load", d>>)
    /\ \A d \in Dimensions : \A f \in Targets \ Dimensions :
          Before(<<"load", d>>, <<"load", f>>)

\* A run went through every phase and both procedures and ended with success.
FullRunCompleted ==
    /\ pc = "done"
    /\ status = "success"
    /\ ~dryRun
    /\ Occurred(<<"load", "fact_daily_portfolio">>)

\* C8: a dry run goes through extract and transform, never connects a Loader,
\* writes no target table, returns an empty load-results map and leaves the load
\* metrics empty.
DryRunSkipsLoad ==
    dryRun => /\ ~loaderConnected
              /\ loaded = {} /\ tx = {}
              /\ DOMAIN loadResults = {}
              /\ metrics.load = {}
              /\ \A g \in Targets : ~Occurred(<<"load", g>>)
              /\ pc \in {"finish", "complete"}
                    => /\ Occurred(<<"extract_done", "all">>)
                       /\ Occurred(<<"transform_done", "all">>)
                       /\ metrics.extract # {} /\ metrics.transform # {}

\* A dry run over a source that has rows ended with success.
DryRunCompleted ==
    /\ dryRun
    /\ pc = "done"
    /\ status = "success"
    /\ src["user"] # {}

\* Loader.run_load is at the table of position ti, or has returned.
InRunLoad == pc \in {"load_dim", "load_dim_end", "load_sp", "load_log"}

-----------------------------------------------------------------------------
\* Properties of timed_step (checked under SpecStep).

\* A use of timed_step ends: its finally block has run.
StepEnds == tsPc = "exit" /\ tsPc' = "out"

StepStatusAndException ==
    (tsPc = "out" /\ tsUses >= 1)
        => /\ (tsErr = None /\ tsRowsFailed = 0) => tsStatus = "success"
           /\ (tsErr = None /\ tsRowsFailed > 0) => tsStatus = "partial"
           /\ tsErr # None => (tsStatus = "failed" /\ tsRaised = tsErr)

\* The body raised, and the caller received the UnboundLocalError of
\* log_step_to_db instead of the body's exception.
StepExceptionReplaced ==
    /\ tsPc = "out"
    /\ tsErr = "body"
    /\ tsStatus = "failed"
    /\ tsRaised = "UnboundLocalError"

-----------------------------------------------------------------------------
\* Properties of the Transformer (checked under SpecTransform).

\* The call of fn returned a TransformResult.
Returned(fn) == tfFn = fn /\ ~tfResult.raised

\* The ids of the rows of a list, and whether no two rows share one.
Ids(rows, key) == {rows[i][key] : i \in 1..Len(rows)}
DistinctIds(rows) == Cardinality(Ids(rows, "id")) = Len(rows)

\* The errors of a result that are about the row with the given id.
ErrorsOf(result, id) ==
    {i \in 1..Len(result.errors) : result.errors[i].record_id = id}

\* The rows and the rejected count of the result add up to the input, and when the
\* input ids are distinct, the rows that were not kept are the ones counted and the
\* kept ones have no error.
Partitioned(input, result, key) ==
    /\ Len(result.rows) + result.rejected_count = Len(input)
    /\ DistinctIds(input) =>
        /\ Ids(result.rows, key) \subseteq Ids(input, "id")
        /\ result.rejected_count =
               Cardinality(Ids(input, "id") \ Ids(result.rows, key))
        /\ \A id \in Ids(result.rows, key) : ErrorsOf(result, id) = {}

\* C12: for every transform_users and transform_loans call that returns,
\* len(rows) + rejected_count is the length of the input, and no input row is both
\* in rows and counted as rejected.
PartitionProperty ==
    /\ Returned("transform_users") =>
           Partitioned(tfIn.users, tfResult.dim_user, "user_id")
    /\ Returned("transform_loans") =>
           Partitioned(tfIn.loans, tfResult.fact_loan_transactions, "loan_id")

PartitionOfMixedBatch ==
    /\ Returned("transform_loans")
    /\ DistinctIds(tfIn.loans)
    /\ Len(tfResult.fact_loan_transactions.rows) = 1
    /\ tfResult.fact_loan_transactions.rejected_count = 1

\* The validation rules a user fails: a required field that is null, a role outside
\* the allowed roles, a credit score that is no number or outside 300..850.
UserRulesFailed(user) ==
    {f \in {"email", "role"} : user[f] = None}
    \cup (IF user.role # None /\ user.role \notin ValidRoles THEN {"role_enum"} ELSE {})
    \cup (IF user.credit_score # NullVal
             /\ (user.credit_score = NotANumber \/ user.credit_score < 300
                 \/ user.credit_score > 850)
          THEN {"credit_score_range"} ELSE {})

\* The validation rules a loan fails: a required field that is null, a borrower
\* outside the valid ids, a status outside the allowed statuses, an interest rate
\* that is no number or outside 0..100.
LoanRulesFailed(loan, user_ids) ==
    {f \in {"borrower_id", "principal_amount", "interest_rate", "term_months"} :
        loan[f] = NullVal}
    \cup (IF loan.borrower_id # NullVal /\ loan.borrower_id \notin user_ids
          THEN {"borrower_fk"} ELSE {})
    \cup (IF loan.status # None /\ loan.status \notin ValidStatuses
          THEN {"status_enum"} ELSE {})
    \cup (IF loan.interest_rate # NullVal
             /\ (loan.interest_rate = NotANumber \/ loan.interest_rate < 0
                 \/ loan.interest_rate > 1000)
          THEN {"interest_rate_range"} ELSE {})

\* C13: a row that fails k >= 1 of the validation rules of its entity has at least
\* k errors in the result's error list and is absent from the result's rows.
ValidationComplete ==
    /\ (Returned("transform_users") /\ DistinctIds(tfIn.users)) =>
        \A i \in 1..Len(tfIn.users) :
            LET k == Cardinality(UserRulesFailed(tfIn.users[i]))
            IN  k >= 1 =>
                  /\ Cardinality(ErrorsOf(tfResult.dim_user, tfIn.users[i].id)) >= k
                  /\ tfIn.users[i].id \notin Ids(tfResult.dim_user.rows, "user_id")
    /\ (Returned("transform_loans") /\ DistinctIds(tfIn.loans)) =>
        \A i \in 1..Len(tfIn.loans) :
            LET k == Cardinality(LoanRulesFailed(tfIn.loans[i], tfIn.user_ids))
            IN  k >= 1 =>
                  /\ Cardinality(ErrorsOf(tfResult.fact_loan_transactions,
                                          tfIn.loans[i].id)) >= k
                  /\ tfIn.loans[i].id
                         \notin Ids(tfResult.fact_loan_transactions.rows, "loan_id")

RowFailingThreeRules ==
    /\ Returned("transform_loans")
    /\ DistinctIds(tfIn.loans)
    /\ \E i \in 1..Len(tfIn.loans) :
        /\ Cardinality(LoanRulesFailed(tfIn.loans[i], tfIn.user_ids)) = 3
        /\ Cardinality(ErrorsOf(tfResult.fact_loan_transactions, tfIn.loans[i].id)) = 3

\* The positions of a list whose id occurs at an earlier position.
LaterOccurrences(rows) ==
    {i \in 1..Len(rows) : \E j \in 1..(i - 1) : rows[j].id = rows[i].id}

\* The number of rows of a result that carry the given id.
RowsWithId(result, key, id) ==
    Cardinality({i \in 1..Len(result.rows) : result.rows[i][key] = id})

\* Of the input rows that share an id, only the first is a candidate for the
\* output; every later one has a DUPLICATE error and is counted as rejected.
FirstOccurrenceWins(input, result, key) ==
    /\ \A i \in LaterOccurrences(input) :
        \E e \in ErrorsOf(result, input[i].id) :
            result.errors[e].error_type = "DUPLICATE"
    /\ \A id \in Ids(input, "id") : RowsWithId(result, key, id) <= 1
    /\ result.rejected_count >= Cardinality(LaterOccurrences(input))

\* C14: in run_transform, every later occurrence of an id among the users (or the
\* loans) is flagged DUPLICATE, is excluded from the output rows of its table and
\* is counted in rejected_count.
DuplicatesRejected ==
    Returned("run_transform") =>
        /\ FirstOccurrenceWins(tfIn.users, tfResult.dim_user, "user_id")
        /\ FirstOccurrenceWins(tfIn.loans, tfResult.fact_loan_transactions, "loan_id")

DuplicateUserKept ==
    /\ Returned("run_transform")
    /\ LaterOccurrences(tfIn.users) # {}
    /\ Len(tfResult.dim_user.rows) = Len(tfIn.users)
    /\ tfResult.dim_user.rejected_count = 0
    /\ \E e \in 1..Len(tfResult.dim_user.errors) :
        tfResult.dim_user.errors[e].error_type = "DUPLICATE"

\* The loans of the call that pass validation and whose currency is neither USD nor
\* in the FX-rate lookup.
LoansMissingFxRate ==
    {i \in 1..Len(tfIn.loans) :
        /\ LoanRulesFailed(tfIn.loans[i], tfIn.user_ids) = {}
        /\ tfIn.loans[i].currency_code # "USD"
        /\ tfIn.loans[i].currency_code \notin DOMAIN tfIn.fx_rates}

\* C15: a valid loan in a non-USD currency that has no FX rate is kept in the rows
\* with FX rate 1.0, and a MISSING_FX_RATE error for it is in the result's error
\* list.
MissingFxRateRecorded ==
    (Returned("transform_loans") /\ DistinctIds(tfIn.loans)) =>
        \A i \in LoansMissingFxRate :
            LET result == tfResult.fact_loan_transactions
            IN  /\ \E r \in 1..Len(result.rows) :
                      /\ result.rows[r].loan_id = tfIn.loans[i].id
                      /\ result.rows[r].fx_rate = 100
                /\ \E e \in ErrorsOf(result, tfIn.loans[i].id) :
                      result.errors[e].error_type = "MISSING_FX_RATE"

MissingFxRateDropped ==
    /\ Returned("transform_loans")
    /\ LoansMissingFxRate # {}
    /\ Len(tfResult.fact_loan_transactions.rows) = Len(tfIn.loans)
    /\ \A r \in 1..Len(tfIn.loans) : tfResult.fact_loan_transactions.rows[r].fx_rate = 100
    /\ tfResult.fact_loan_transactions.errors = <<>>

\* A loan with a negative principal, an interest rate above 100, a negative term, a
\* status outside the allowed set, or a null principal.
Problematic(loan) ==
    \/ (loan.principal_amount \notin {NullVal, NotANumber} /\ loan.principal_amount < 0)
    \/ (loan.interest_rate \notin {NullVal, NotANumber} /\ loan.interest_rate > 1000)
    \/ (loan.term_months \notin {NullVal, NotANumber} /\ loan.term_months < 0)
    \/ (loan.status # None /\ loan.status \notin ValidStatuses)
    \/ loan.principal_amount = NullVal

\* C16: transform_loans rejects every loan with a negative principal, a rate above
\* 100, a negative term, an invalid status or a null principal: none of them is in
\* the rows and each is counted in rejected_count.
ProblematicLoansRejected ==
    (Returned("transform_loans") /\ DistinctIds(tfIn.loans)) =>
        LET bad == {i \in 1..Len(tfIn.loans) : Problematic(tfIn.loans[i])}
        IN  /\ \A i \in bad :
                  tfIn.loans[i].id
                      \notin Ids(tfResult.fact_loan_transactions.rows, "loan_id")
            /\ tfResult.fact_loan_transactions.rejected_count >= Cardinality(bad)

DemoFixtureKeepsTwoLoans ==
    /\ Returned("transform_loans")
    /\ tfIn.loans = ProblematicLoans
    /\ Ids(tfResult.fact_loan_transactions.rows, "loan_id") = {201, 203}
    /\ tfResult.fact_loan_transactions.rejected_count = 3

\* The rows of the call with a numeric field that is not null and no number.
NonNumericRows ==
    {i \in 1..Len(tfIn.loans) :
        \/ tfIn.loans[i].principal_amount = NotANumber
        \/ tfIn.loans[i].interest_rate = NotANumber
        \/ tfIn.loans[i].term_months = NotANumber}
    \cup {i \in 1..Len(tfIn.users) : tfIn.users[i].credit_score = NotANumber}

\* C17: no transform_users or transform_loans call raises because of bad row data:
\* the call returns a result in which every row with a non-numeric value is rejected
\* with a validation error.
BadDataNeverRaises ==
    tfFn \in {"transform_users", "transform_loans"} =>
        /\ ~tfResult.raised
        /\ LET result == IF tfFn = "transform_users" THEN tfResult.dim_user
                         ELSE tfResult.fact_loan_transactions
               input == IF tfFn = "transform_users" THEN tfIn.users ELSE tfIn.loans
           IN  DistinctIds(input) =>
                   \A i \in NonNumericRows : ErrorsOf(result, input[i].id) # {}

NonNumericPrincipalRaised ==
    /\ tfFn = "transform_loans"
    /\ tfResult.raised
    /\ Len(tfIn.loans) = 2
    /\ tfIn.loans[1].principal_amount = NotANumber
    /\ LoanRulesFailed(tfIn.loans[1], tfIn.user_ids) = {}
    /\ LoanRulesFailed(tfIn.loans[2], tfIn.user_ids) # {}

\* principal x (rate/100) x (term_months/12) rounded half-even to cents, from the
\* fields of an output row.
RoundedInterest(row) ==
    LET n == row.principal_amount * row.interest_rate * row.term_months
    IN  IF 2 * (n % 120) > 120 \/ (2 * (n % 120) = 120 /\ (n \div 120) % 2 = 1)
        THEN (n \div 120) + 1
        ELSE n \div 120

\* C20: every row of the transform_loans output has interest_amount equal to
\* principal x (rate/100) x (term_months/12) rounded to two decimal places, and
\* total_amount equal to principal_amount plus that rounded interest_amount.
InterestAndTotal ==
    Returned("transform_loans") =>
        \A r \in 1..Len(tfResult.fact_loan_transactions.rows) :
            LET row == tfResult.fact_loan_transactions.rows[r]
            IN  /\ row.interest_amount = RoundedInterest(row)
                /\ row.total_amount = row.principal_amount * 12000 + row.interest_amount * 120

TotalUsesUnroundedInterest ==
    /\ Returned("transform_loans")
    /\ \E r \in 1..Len(tfResult.fact_loan_transactions.rows) :
        LET row == tfResult.fact_loan_transactions.rows[r]
        IN  /\ row.principal_amount = 5000 /\ row.interest_rate = 85 /\ row.term_months = 1
            /\ row.interest_amount = 3542
            /\ row.total_amount = 5000 * 12000 + 425000
            /\ row.total_amount # 5000 * 12000 + 3542 * 120

-----------------------------------------------------------------------------
\* Properties of concurrent incremental runs (checked under SpecConcurrent).

\* The rows contained in the extract result of at least one of the runs.
ExtractedByARun == UNION {cc[r].rows : r \in Runs}

\* C18: when two concurrent incremental runs have both returned, every row that
\* was above the stored watermark when they started is in the result of at least
\* one of them, and so is every row at or below the watermark finally stored.
AtLeastOnce ==
    (\A r \in Runs : cc[r].pc = "done") =>
        /\ \A x \in ccStart.rows : x.ts > ccStart.wm => x \in ExtractedByARun
        /\ \A x \in ccSrc :
              (x.ts > ccStart.wm /\ x.ts <= wm["user"].value) => x \in ExtractedByARun

RowSkippedByBothRuns ==
    /\ \A r \in Runs : cc[r].pc = "done"
    /\ ccStart.isolation = "REPEATABLE READ"
    /\ \A r \in Runs : cc[r].wm = ccStart.wm /\ cc[r].rows # {}
    /\ \E x \in ccSrc :
        /\ x.ts > ccStart.wm
        /\ x.ts <= wm["user"].value
        /\ x \notin ExtractedByARun

\* The largest timestamp among the rows run r extracted.
MaxExtracted(r) == Max({x.ts : x \in cc[r].rows})

\* C26: when source rows are inserted while a run is extracting, in the
\* incremental and in the full path, the watermark the run stores never exceeds
\* the largest timestamp among the rows this run extracted (with no rows
\* extracted it is not above the watermark the run read).
StoredWatermarkWithinExtracted ==
    \A r \in Runs :
        (cc[r].pc = "done" /\ TruthyTs(cc[r].watermark)) =>
            IF cc[r].rows = {} THEN cc[r].watermark <= cc[r].wm
            ELSE cc[r].watermark <= MaxExtracted(r)

\* A run stored the timestamp of a row that was inserted after its row query and
\* that it did not extract.
StoredWatermarkOfUnextractedRow ==
    \E r \in Runs :
        /\ cc[r].pc = "done"
        /\ cc[r].rows # {}
        /\ cc[r].watermark > MaxExtracted(r)
        /\ \E x \in ccSrc \ cc[r].rows : x.ts = cc[r].watermark
        /\ wm["user"].value = cc[r].watermark

-----------------------------------------------------------------------------
\* Properties of the connection configuration (checked under SpecConnect).

\* A required connection parameter (host or user) is absent from the environment
\* of the pipeline, or from the config a caller supplied.
RequiredParameterAbsent ==
    /\ cfPc # "start"
    /\ IF cfPipeline
       THEN \E k \in {"host", "user"} : EnvVar[k] \notin cfEnv
       ELSE \E k \in {"host", "user"} : k \notin DOMAIN cfConfig

\* The host names and credentials written in the code.
Hardcoded ==
    {ConfigDefault.host, ConfigDefault.user, ConfigDefault.password,
     LoaderDefault.host, LoaderDefault.user}

\* C19: when host or user is absent from the configuration or environment, the
\* connect step raises a configuration error before any database connection is
\* opened, and no connection is ever opened with a hardcoded host or credential.
ConnectFailsFast ==
    /\ RequiredParameterAbsent =>
          /\ cfConns = <<>>
          /\ cfPc = "end" => cfError = "ValueError"
    /\ \A i \in 1..Len(cfConns) :
          {cfConns[i].host, cfConns[i].user, cfConns[i].password} \cap Hardcoded = {}

HardcodedHostUsed ==
    /\ cfPipeline
    /\ cfEnv = {}
    /\ cfPc = "end"
    /\ cfError = None
    /\ Len(cfConns) = 3
    /\ \A i \in 1..3 : /\ cfConns[i].host = ConfigDefault.host
                       /\ cfConns[i].user = ConfigDefault.user
                       /\ cfConns[i].password = ConfigDefault.password

-----------------------------------------------------------------------------
\* Properties of the cache layer (checked under SpecCache).

CachedPerArguments ==
    chLast.op = "cached" =>
        /\ ~chLast.fetched => chLast.origin = chLast.args
        /\ (chLast.origin = chLast.args /\ ~chLast.get_failed) => ~chLast.fetched

ValueOfOtherArguments ==
    /\ chLast.op = "cached"
    /\ chLast.args = <<10, 3>>
    /\ chLast.origin = <<5, 3>>
    /\ ~chLast.fetched
    /\ chLast.result = expensive_operation(<<5, 3>>)
    /\ chLast.result # expensive_operation(chLast.args)

-----------------------------------------------------------------------------
\* Properties of the watermarks within an orchestrator run (checked under Spec).

\* A table extraction of run_extract raises: an operational table's row or MAX
\* query, or a reference or market extract.
ExtractionRaises ==
    /\ pc \in {"extract_rows", "extract_max", "extract_ref"}
    /\ pc' = "handler"

\* C23: when the extraction of a table raises during run_extract, in full or
\* incremental mode, no watermark record has been modified by the run.
NoWatermarkBeforeExtractSucceeds ==
    [][ExtractionRaises => wm' = wmAtStart]_vars

FullWatermarkThenExtractFailed ==
    /\ pc = "handler"
    /\ exc = "extract"
    /\ mode = "full"
    /\ \E t \in Tables : /\ wm[t].value > wmAtStart[t].value
                         /\ wm[t].last_run_id = runId

\* C27: a dry run leaves every watermark record as it was when the run
\* started, in full and in incremental mode, so the next incremental run
\* extracts every row the dry run extracted.
DryRunKeepsWatermarks ==
    dryRun => wm = wmAtStart

\* A dry run ended with success and left a watermark advanced under its run id.
DryRunAdvancedWatermark ==
    /\ dryRun
    /\ pc = "done"
    /\ status = "success"
    /\ \E t \in Tables : /\ wm[t].value > wmAtStart[t].value
                         /\ wm[t].last_run_id = runId

\* C28: when a run ends failed because its transform or load phase raised,
\* every watermark holds the value it had before the run started, so the rows
\* the run extracted are extracted again by the next incremental run.
FailedRunKeepsWatermarks ==
    (pc = "done" /\ status = "failed" /\ exc \in {"transform", "load"})
        => \A t \in Tables : wm[t].value = wmAtStart[t].value

\* A run failed in its transform or load phase after its extract phase had
\* advanced a watermark past the rows it extracted.
FailedRunAdvancedWatermark ==
    /\ pc = "done"
    /\ status = "failed"
    /\ exc \in {"transform", "load"}
    /\ \E t \in Tables : /\ wm[t].value > wmAtStart[t].value
                         /\ wm[t].last_run_id = runId

\* Properties of run_transform's foreign keys (checked under SpecTransform).

\* C30: every row of the fact_loan_transactions output of a run_transform call
\* carries a user_id that appears in the dim_user output rows of the same call:
\* no fact row references a user that transform_users rejected.
FactUsersInDimUser ==
    Returned("run_transform") =>
        Ids(tfResult.fact_loan_transactions.rows, "user_id")
            \subseteq Ids(tfResult.dim_user.rows, "user_id")

\* A fact row of the output references an extracted user that is not in the
\* dim_user output.
FactReferencesRejectedUser ==
    /\ Returned("run_transform")
    /\ \E id \in Ids(tfResult.fact_loan_transactions.rows, "user_id") :
        /\ id \in Ids(tfIn.users, "id")
        /\ id \notin Ids(tfResult.dim_user.rows, "user_id")
        /\ tfResult.dim_user.rejected_count > 0

\* The loans of the input whose borrower is a user of the source user table and
\* that got an INVALID_FK error.
FkRejectedWithExistingUser ==
    {i \in 1..Len(tfIn.loans) :
        /\ tfIn.loans[i].borrower_id \in tfIn.source_user_ids
        /\ \E e \in 1..Len(tfResult.fact_loan_transactions.errors) :
            LET err == tfResult.fact_loan_transactions.errors[e]
            IN  /\ err.record_id = tfIn.loans[i].id
                /\ err.field = "borrower_id"
                /\ err.error_type = "INVALID_FK"}

\* C29: a loan whose borrower_id names a user that exists in the source user
\* table is never rejected with INVALID_FK, also when that user is not among
\* the users extracted by the incremental run.
ExistingBorrowerNeverInvalidFk ==
    Returned("run_transform") => FkRejectedWithExistingUser = {}

\* The borrower of a loan is in the source user table but not among the
\* extracted users, and the loan got an INVALID_FK error.
UnmodifiedBorrowerRejected ==
    /\ Returned("run_transform")
    /\ \E i \in FkRejectedWithExistingUser :
        /\ tfIn.loans[i].borrower_id \notin tfIn.user_ids
        /\ tfResult.fact_loan_transactions.rejected_count > 0

\* Properties of the dimension load (checked under SpecLoadDim).

\* C24: the load commits after each batch: when the statement for batch k fails,
\* the batches 1..k-1 of that load are already committed and stay in dim_user,
\* so a failure loses at most one batch of work.
EarlierBatchesCommitted ==
    (ldPc = "done" /\ ldFailedAt > 0) =>
        \A k \in 1..(ldFailedAt - 1) : k \in ldTable

\* The statement of a batch after the first failed and dim_user holds no batch
\* of the load.
EarlierBatchesRolledBack ==
    /\ ldPc = "done"
    /\ ~ldResult.success
    /\ ldFailedAt > 1
    /\ ldTable = {}
    /\ ldTx = {}

\* C25: whenever load_dim_user disabled the dim_user indexes for a bulk load, it
\* re-enables them before it returns, when the load succeeds and when it fails
\* and is rolled back: no call returns with the indexes left disabled.
IndexesEnabledOnReturn ==
    ldPc = "done" => ldIndexes = "enabled"

\* A bulk load failed, was rolled back and returned with the indexes disabled.
FailedLoadLeftIndexesDisabled ==
    /\ ldPc = "done"
    /\ ~ldResult.success
    /\ ldResult.rows_staged > BulkThreshold
    /\ ldTx = {}
    /\ ldIndexes = "disabled"

====
